---- MODULE Spec2Model ----
(***************************************************************************)
(* A model of ppbt (portable python build toolchains): the retrying        *)
(* fetcher (fetch_url / download_url), the toolchain build pipeline        *)
(* (build_ppbt, build_ppt), the triplet resolver (get_triplet) and the     *)
(* lazy extractor / environment deriver (extract, environ).                *)
(***************************************************************************)
EXTENDS Integers, Sequences, FiniteSets, TLC

(***************************************************************************)
(* Bounds of the model.                                                    *)
(***************************************************************************)
MaxBackoff == 3
MaxBlocks == 2
MaxRows == 2
MaxForced == 1
\* Copies of the auxiliary tool into the toolchain after which no further
\* pipeline run is begun.
MaxCopies == 2

(***************************************************************************)
(* Program constants.                                                      *)
(***************************************************************************)
SleepUnit == 10

VARIABLES
    \* ---- fetcher: one download_url call at a time ----
    fpc,        \* position: "idle", "loop" (fetch_url's while), "read", "done"
    url,        \* argument url of download_url, a sequence of path segments
    backoff,    \* argument backoff of download_url, as passed
    n,          \* fetch_url's attempt counter n
    conn,       \* outcome of each urlopen so far, in order
    fin,        \* attempt whose response fin is bound to (0: unbound)
    opened,     \* attempts whose response was opened and never closed
    body,       \* blocks the response bound to fin will still deliver
    flen,       \* blocks in the whole body of the response bound to fin
    slept,      \* arguments of the time.sleep calls, in order
    dir,        \* dest: file name -> number of blocks in it (files present)
    dir0,       \* dest as it was when download_url was called
    fres,       \* how the call ended: [kind |-> "none"|"returned"|"raised", ...]
    \* ---- build pipeline: build_ppbt / build_ppt, one call at a time ----
    variant,    \* "ppbt" (src/ppbt/build.py) or "ppt" (src/ppt/build.py)
    arg,        \* build_ppbt: a branch was given; build_ppt: static is true
    bpc,        \* position inside the pipeline ("idle", "end": no call runs)
    cwd,        \* the process working directory
    cwd0,       \* the local cwd: the working directory when the call began
    fs,         \* the paths that exist in the work tree
    partial,    \* the paths among them whose creation was cut short
    events,     \* what the current call did so far, in order
    outcome,    \* how the last call ended, "running" while one runs
    okBefore,   \* a call before the current one returned normally
    hcall,      \* the last helper call: [name, from (cwd at call), raised]
    auxStamp,   \* modification time of archdir/bin/patchelf: the copies made so far
    archived,   \* what the archive file in the work tree holds
    published,  \* the archives that calls which returned left in the package
    privileged, \* os.getuid() == 0
    cicd,       \* CICD: "CI" is in the environment of the process
    \* ---- triplet resolver: the last get_triplet call ----
    tvariant,           \* "ppbt" (src/ppbt/common.py) or "ppt" (src/ppt/build.py)
    machine,            \* argument machine ("": None or empty)
    plat,               \* argument plat ("": None or empty)
    sys_platform,       \* sys.platform of the host
    platform_machine,   \* platform.machine() of the host
    tres,               \* what the call gave: [kind |-> "none"|"return"|"raise", val]
    names,              \* the names the last place derived: [site, arch, raised, archive, record, dir]
    \* ---- extractor and environment of one installed package ----
    evariant,       \* "ppbt", "ppt_common" or "ppt_environ": the module
    etriplet,       \* TRIPLET, as the module computed it when imported
    eroot,          \* TOOLCHAIN_ROOT, as str shows it
    toolchain,      \* TOOLCHAIN: "absent", "partial" or "complete"
    archive,        \* ARCHIVE: "ok", "missing" or "truncated"
    manifestExists, \* ARCHIVE + ".record" is there
    manifest,       \* the rows csv.reader reads from it
    recordExists,   \* DISTINFO / "RECORD" is there
    record,         \* the rows csv.reader reads from it
    plainUnpacks,   \* archives unpacked by calls other than extract(overwrite=True)
    forcedUnpacks,  \* archives unpacked by extract(overwrite=True)
    ecall,          \* the last call, what it found and how it ended
    \* ---- archiver, manifest and archive codec ----
    akind,      \* "ppbt" (tar subprocess) or "ppt" (tarfile over os.walk)
    tree,       \* the built tree: path below build -> what is there
    tarDefault, \* the interpreter's default extraction filter
    tarball,    \* the members of the archive, in order
    mrows,      \* the rows of the manifest written
    dest,       \* what extraction wrote: absolute path -> what is there
    ares,       \* how the last step ended
    apc         \* "built", "archived", "manifested", "foreign", "extracted..."

fetchVars == <<fpc, url, backoff, n, conn, fin, opened, body, flen, slept, dir, dir0, fres>>

buildVars == <<variant, arg, bpc, cwd, cwd0, fs, partial, events, outcome, okBefore, hcall,
               auxStamp, archived, published, privileged, cicd>>

tripletVars == <<tvariant, machine, plat, sys_platform, platform_machine, tres, names>>

envVars == <<evariant, etriplet, eroot, toolchain, archive, manifestExists, manifest, recordExists,
             record, plainUnpacks, forcedUnpacks, ecall>>

archVars == <<akind, tree, tarDefault, tarball, mrows, dest, ares, apc>>

vars == <<fetchVars, buildVars, tripletVars, envVars, archVars>>

\* What a step of one part leaves alone.
notFetchVars == <<buildVars, tripletVars, envVars, archVars>>
notBuildVars == <<fetchVars, tripletVars, envVars, archVars>>
notTripletVars == <<fetchVars, buildVars, envVars, archVars>>
notEnvVars == <<fetchVars, buildVars, tripletVars, archVars>>
notArchVars == <<fetchVars, buildVars, tripletVars, envVars>>

(***************************************************************************)
(* Fetcher: src/ppbt/build.py (and its copy in src/ppt/build.py).          *)
(***************************************************************************)

\* The urls the pipeline downloads: CT_URL and PATCHELF_SOURCE, as path
\* segments, and one more whose last segment collides with nothing.
Urls ==
    { <<"crosstool-ng.org", "download", "crosstool-ng", "crosstool-ng-1.26.0.tar.bz2">>,
      <<"github.com", "NixOS", "patchelf", "releases", "download", "0.18.0",
        "patchelf-0.18.0.tar.gz">> }

\* os.path.basename(url): the last path segment.
Basename(u) == u[Len(u)]

\* get_download_location(url, dest): dest is fixed, a file is named by its
\* name inside dest.
get_download_location(u) == Basename(u)

FileNames == { Basename(u) : u \in Urls } \cup { "unrelated" }

\* The exceptions fetch_url's except clause names.
Transient_onlyHTTP == { "HTTPError" }
Transient == { "HTTPError", "URLError", "RemoteDisconnected" }

\* An exception urlopen raises that the clause does not name (a socket timeout
\* while waiting for the response is a TimeoutError, not a URLError).
OtherConnErrors == { "TimeoutError" }

\* What one urlopen call can do.
ConnOutcomes ==
    { "ok", "HTTPError", "URLError", "RemoteDisconnected" } \cup OtherConnErrors

\* Errors while reading or writing the body: fin.read / fp.write.
BodyErrors == { "IncompleteRead", "OSError" }

\* if backoff < 1: backoff = 1
NormBackoff(b) == IF b < 1 THEN 1 ELSE b

\* if n >= backoff: raise
Exhausted_offByOne(i, b) == i > b
Exhausted(i, b) == i >= b

\* os.unlink(local), an OSError (the file is not there) swallowed.
Unlink_noop(d, f) == d
Unlink(d, f) == [ g \in (DOMAIN d) \ {f} |-> d[g] ]

\* fout = open(local, "wb"): creates the file, or truncates the one there.
OpenWb(d, f) == [ g \in (DOMAIN d) \cup {f} |-> IF g = f THEN 0 ELSE d[g] ]

\* fp.write(block)
WriteBlock(d, f) == [ d EXCEPT ![f] = @ + 1 ]

local == get_download_location(url)

NoResult == [kind |-> "none"]
Returned(p) == [kind |-> "returned", path |-> p]
\* at = 0: raised while reading or writing the body; else by that attempt.
Raised(e, at) == [kind |-> "raised", exc |-> e, at |-> at]

\* download_url's except clause: unlink the local file and re-raise.
DownloadFailed(e, at) ==
    /\ dir' = Unlink(dir, local)
    /\ fres' = Raised(e, at)
    /\ fpc' = "done"

\* download_url up to the call of fetch_url.
download_url(u, b) ==
    /\ fpc = "idle"
    /\ url' = u
    /\ backoff' = b
    /\ dir0' = dir
    /\ dir' = OpenWb(dir, get_download_location(u))
    /\ n' = 0
    /\ fpc' = "loop"
    /\ UNCHANGED <<conn, fin, opened, body, flen, slept, fres>>
    /\ UNCHANGED notFetchVars

\* One iteration of fetch_url's while loop.
fetch_attempt(o, len) ==
    /\ fpc = "loop"
    /\ n < NormBackoff(backoff)
    /\ n' = n + 1
    /\ conn' = Append(conn, o)
    /\ IF o = "ok"
       THEN /\ fin' = n + 1
            /\ opened' = opened \cup {n + 1}
            /\ body' = len
            /\ flen' = len
            /\ fpc' = IF n + 1 < NormBackoff(backoff) THEN "loop" ELSE "read"
            /\ UNCHANGED <<slept, dir, fres>>
       ELSE /\ len = 0
            /\ UNCHANGED <<fin, opened, body, flen>>
            /\ IF o \in Transient
               THEN IF Exhausted(n + 1, NormBackoff(backoff))
                    THEN DownloadFailed(o, n + 1) /\ UNCHANGED slept
                    ELSE /\ slept' = Append(slept, (n + 1) * SleepUnit)
                         /\ fpc' = IF n + 1 < NormBackoff(backoff) THEN "loop" ELSE "read"
                         /\ UNCHANGED <<dir, fres>>
               ELSE DownloadFailed(o, n + 1) /\ UNCHANGED slept
    /\ UNCHANGED <<url, backoff, dir0>>
    /\ UNCHANGED notFetchVars

\* fetch_url after the loop: one fin.read and what follows it.
fetch_read(r) ==
    /\ fpc = "read"
    /\ IF fin = 0
       THEN \* the loop ended with fin never bound
            /\ r = "UnboundLocalError"
            /\ DownloadFailed("UnboundLocalError", 0)
            /\ UNCHANGED <<opened, body>>
       ELSE IF r = "block"
       THEN /\ body > 0
            /\ dir' = WriteBlock(dir, local)
            /\ body' = body - 1
            /\ UNCHANGED <<fpc, opened, fres>>
       ELSE IF r = "eof"
       THEN /\ body = 0
            /\ opened' = opened \ {fin}
            /\ fres' = Returned(local)
            /\ fpc' = "done"
            /\ UNCHANGED <<dir, body>>
       ELSE /\ r \in BodyErrors
            /\ opened' = opened \ {fin}
            /\ DownloadFailed(r, 0)
            /\ UNCHANGED body
    /\ UNCHANGED <<url, backoff, n, conn, fin, flen, slept, dir0>>
    /\ UNCHANGED notFetchVars

\* The caller goes on after the call ended: the next call starts afresh, the
\* files of dest stay.
fetch_next_call ==
    /\ fpc = "done"
    /\ fpc' = "idle"
    /\ n' = 0
    /\ conn' = <<>>
    /\ fin' = 0
    /\ opened' = {}
    /\ body' = 0
    /\ flen' = 0
    /\ slept' = <<>>
    /\ fres' = NoResult
    /\ UNCHANGED <<url, backoff, dir, dir0>>
    /\ UNCHANGED notFetchVars

FetchInit ==
    /\ fpc = "idle"
    /\ url \in Urls
    /\ backoff = 3
    /\ n = 0
    /\ conn = <<>>
    /\ fin = 0
    /\ opened = {}
    /\ body = 0
    /\ flen = 0
    /\ slept = <<>>
    /\ \E S \in SUBSET FileNames : dir = [ f \in S |-> 1 ]
    /\ dir0 = dir
    /\ fres = NoResult

FetchNext ==
    \/ \E u \in Urls, b \in 0..MaxBackoff : download_url(u, b)
    \/ \E o \in ConnOutcomes, len \in 0..MaxBlocks : fetch_attempt(o, len)
    \/ \E r \in {"block", "eof", "UnboundLocalError"} \cup BodyErrors : fetch_read(r)
    \/ fetch_next_call


(***************************************************************************)
(* Build pipeline: build_ppbt (src/ppbt/build.py) and build_ppt            *)
(* (src/ppt/build.py).  The work tree is the set fs of the paths that      *)
(* exist; a stage is one or more steps, each ending in the next position   *)
(* or, on an exception, in the finally clause and the end of the call.     *)
(***************************************************************************)

\* The paths of the work tree.  build_ppbt keeps them under root/build,
\* build_ppt under DATA_DIR/toolchain; the names here are the roles.
WorkDir == "build"                    \* build | dirs.toolchain
GenTar == "build/crosstool-ng.tar.bz2"
GenDir == "build/crosstool-ng"        \* ctngdir
GenExe == "build/crosstool-ng/ct-ng"  \* ctng
DotConfig == "build/crosstool-ng/.config"
Config == "_config/machine/triplet-ct-ng.config"
PkgDir == "_toolchain"                \* toolchain | dirs.toolchain_config
AuxTar == "build/patchelf.tar.gz"
AuxDir == "build/patchelf"            \* source
AuxExe == "build/patchelf/src/patchelf"
Caller == "caller"                    \* where the caller stands

\* toolchain: where build_ppt builds the toolchain and makes the archive.
PptToolchain == IF arg THEN WorkDir ELSE PkgDir

\* archdir, its bin directory and the patchelf copied there.
ArchDir == IF variant = "ppbt" THEN "build/triplet" ELSE PptToolchain \o "/triplet"
ArchBin == ArchDir \o "/bin"
ArchAux == ArchDir \o "/bin/patchelf"

\* The archive and the manifest where the pipeline makes them, and where it
\* puts them for the package.
Archive == IF variant = "ppbt" THEN "build/triplet.tar.xz" ELSE PptToolchain \o "/triplet.tar.xz"
Record == "build/triplet.tar.xz.record"
PkgArchive == "_toolchain/triplet.tar.xz"
PkgRecord == "_toolchain/triplet.tar.xz.record"
\* The archive build_ppt makes while it stands in ctngdir.
StrayArchive == "build/crosstool-ng/triplet.tar.xz"

\* env of the generator's source and build phases: os.environ.copy() with
\* CT_PREFIX, the flags that let ct-ng build as root (build_ppbt: when
\* os.getuid() is 0; build_ppt: always) and, under CI, CT_LOG_PROGRESS.
\* What is added to the inherited environment, as name and value.
GeneratorEnv ==
    { <<"CT_PREFIX", IF variant = "ppbt" THEN WorkDir ELSE PptToolchain>> }
      \cup (IF variant = "ppt" \/ privileged
            THEN { <<"CT_ALLOW_BUILD_AS_ROOT", "y">>, <<"CT_ALLOW_BUILD_AS_ROOT_SURE", "y">> }
            ELSE {})
      \cup (IF cicd THEN { <<"CT_LOG_PROGRESS", "n">> } ELSE {})

\* What a step did: op, where the process stood, the exit status (or 0/1
\* for done/failed) and, for a subprocess given env, what env adds.
Ev(op, rc) ==
    [op |-> op, cwd |-> cwd, rc |-> rc,
     env |-> IF op \in {"generator_source", "generator_build"} THEN GeneratorEnv ELSE {}]

Running == [exc |-> "running", arg |-> ""]
Ok == [exc |-> "none", arg |-> ""]
Exc(e, a) == [exc |-> e, arg |-> a]

\* finally: os.chdir(cwd)
Finally == cwd' = cwd0

\* An exception leaves the call through the finally clause.
Raise(e, a) ==
    /\ outcome' = Exc(e, a)
    /\ Finally
    /\ bpc' = "end"

\* runcmd: the exception a non-zero exit raises.  build_ppbt's is BuildError,
\* build_ppt's is a bare BaseException; both carry the command line.
RuncmdError == IF variant = "ppbt" THEN "BuildError" ELSE "BaseException"

\* runcmd(cmd): raise on a non-zero exit, else go on to position next with
\* the work tree fs2.
runcmd(op, rc, fs2, next) ==
    /\ events' = Append(events, Ev(op, rc))
    /\ fs' = fs2
    /\ IF rc # 0
       THEN Raise(RuncmdError, op)
       ELSE bpc' = next /\ UNCHANGED <<cwd, outcome>>

\* subprocess.run(cmd) with the exit status not looked at.
subprocess_run(op, rc, fs2, next) ==
    /\ events' = Append(events, Ev(op, rc))
    /\ fs' = fs2
    /\ bpc' = next
    /\ UNCHANGED <<cwd, outcome>>

\* The existence checks that gate the stages.
GeneratorAcquired == GenDir \in fs
GeneratorCompiled_never == FALSE
GeneratorCompiled == GenExe \in fs
ToolchainBuilt == ArchDir \in fs
ConfigMissing_unchecked == FALSE
ConfigMissing == Config \notin fs
AuxAcquired == AuxDir \in fs
AuxCompiled == AuxExe \in fs

NoHelper == [name |-> "none", from |-> "", raised |-> FALSE]

\* What an archive holds of the tree, as far as two runs can differ in it:
\* whether it was written to its end, and the modification time tar and
\* tarfile record for bin/patchelf (0: the file is not in the tree).
NoArchive == [whole |-> FALSE, aux_mtime |-> 0]
TarOf_withoutAux(whole) == [whole |-> whole, aux_mtime |-> 0]
TarOf(whole) == [whole |-> whole, aux_mtime |-> auxStamp]

\* build_ppbt / build_ppt up to the first stage.
build_begin ==
    /\ bpc \in {"idle", "end"}
    /\ auxStamp < MaxCopies
    /\ cwd0' = cwd
    /\ fs' = fs \cup {WorkDir}
    /\ events' = <<>>
    /\ outcome' = Running
    /\ okBefore' = (okBefore \/ outcome = Ok)
    /\ hcall' = NoHelper
    /\ bpc' = "acquire"
    /\ UNCHANGED <<variant, arg, cwd, partial>>
    /\ UNCHANGED <<auxStamp, archived, published>>
    /\ UNCHANGED <<privileged, cicd>>
    /\ UNCHANGED notBuildVars

\* build_ppbt with a branch: git clone, its exit status not looked at.  A
\* failed clone may leave the directory behind (left).
acquire_clone(rc, left) ==
    /\ bpc = "acquire"
    /\ variant = "ppbt" /\ arg
    /\ IF GeneratorAcquired
       THEN /\ rc = 0 /\ ~left
            /\ bpc' = "enter"
            /\ UNCHANGED <<cwd, fs, partial, events, outcome>>
       ELSE /\ (rc = 0) => ~left
            /\ cwd' = WorkDir
            /\ events' = Append(events, [op |-> "clone_generator", cwd |-> WorkDir, rc |-> rc, env |-> {}])
            /\ fs' = IF rc = 0 \/ left THEN fs \cup {GenDir} ELSE fs
            /\ partial' = IF left THEN partial \cup {GenDir} ELSE partial
            /\ bpc' = "enter"
            /\ UNCHANGED outcome
    /\ UNCHANGED <<variant, arg, cwd0, okBefore, hcall>>
    /\ UNCHANGED <<auxStamp, archived, published>>
    /\ UNCHANGED <<privileged, cicd>>
    /\ UNCHANGED notBuildVars

\* Without a branch (and in build_ppt): download_url of the versioned archive.
\* A failed download leaves no file (download_url unlinks it) and raises.
acquire_download(ok) ==
    /\ bpc = "acquire"
    /\ ~(variant = "ppbt" /\ arg)
    /\ IF GeneratorAcquired
       THEN /\ ok
            /\ bpc' = "enter"
            /\ UNCHANGED <<cwd, fs, events, outcome>>
       ELSE /\ events' = Append(events, Ev("download_generator", IF ok THEN 0 ELSE 1))
            /\ IF ok
               THEN /\ fs' = fs \cup {GenTar}
                    /\ bpc' = "extract_gen"
                    /\ UNCHANGED <<cwd, outcome>>
               ELSE /\ fs' = fs \ {GenTar}
                    /\ Raise("URLError", "download_generator")
    /\ UNCHANGED <<variant, arg, cwd0, partial, okBefore, hcall>>
    /\ UNCHANGED <<auxStamp, archived, published>>
    /\ UNCHANGED <<privileged, cicd>>
    /\ UNCHANGED notBuildVars

\* extract_archive(build, archive): res is "ok", "early" (it fails before it
\* makes the directory) or "partial" (it fails after).
acquire_extract(res) ==
    /\ bpc = "extract_gen"
    /\ events' = Append(events, Ev("extract_generator", IF res = "ok" THEN 0 ELSE 1))
    /\ fs' = IF res = "early" THEN fs ELSE fs \cup {GenDir}
    /\ partial' = IF res = "partial" THEN partial \cup {GenDir} ELSE partial
    /\ IF res = "ok"
       THEN bpc' = "enter" /\ UNCHANGED <<cwd, outcome>>
       ELSE Raise("ReadError", "extract_generator")
    /\ UNCHANGED <<variant, arg, cwd0, okBefore, hcall>>
    /\ UNCHANGED <<auxStamp, archived, published>>
    /\ UNCHANGED <<privileged, cicd>>
    /\ UNCHANGED notBuildVars

\* os.chdir(ctngdir) and the check of ctng.exists().
enter_generator ==
    /\ bpc = "enter"
    /\ IF ~GeneratorAcquired
       THEN Raise("FileNotFoundError", "chdir")
       ELSE /\ cwd' = GenDir
            /\ bpc' = IF GeneratorCompiled THEN "resolve" ELSE "configure_gen"
            /\ UNCHANGED outcome
    /\ UNCHANGED <<variant, arg, cwd0, fs, partial, events, okBefore, hcall>>
    /\ UNCHANGED <<auxStamp, archived, published>>
    /\ UNCHANGED <<privileged, cicd>>
    /\ UNCHANGED notBuildVars

\* runcmd(["./configure", "--enable-local"])
configure_generator(rc) ==
    /\ bpc = "configure_gen"
    /\ runcmd("configure_generator", rc, fs, "make_gen")
    /\ UNCHANGED <<variant, arg, cwd0, partial, okBefore, hcall>>
    /\ UNCHANGED <<auxStamp, archived, published>>
    /\ UNCHANGED <<privileged, cicd>>
    /\ UNCHANGED notBuildVars

\* runcmd(["make"]): a make that exits with zero has built ct-ng.
make_generator(rc) ==
    /\ bpc = "make_gen"
    /\ runcmd("make_generator", rc, IF rc = 0 THEN fs \cup {GenExe} ELSE fs, "resolve")
    /\ UNCHANGED <<variant, arg, cwd0, partial, okBefore, hcall>>
    /\ UNCHANGED <<auxStamp, archived, published>>
    /\ UNCHANGED <<privileged, cicd>>
    /\ UNCHANGED notBuildVars

\* build_ppbt: toolchain.mkdir(exist_ok=True), the triplet and the check of
\* archdir.exists().
ppbt_resolve ==
    /\ bpc = "resolve"
    /\ variant = "ppbt"
    /\ fs' = fs \cup {PkgDir}
    /\ events' = Append(events, Ev(IF ToolchainBuilt THEN "resolve_hit" ELSE "resolve_miss", 0))
    /\ bpc' = IF ToolchainBuilt THEN "aux" ELSE "config"
    /\ UNCHANGED <<variant, arg, cwd, cwd0, partial, outcome, okBefore, hcall>>
    /\ UNCHANGED <<auxStamp, archived, published>>
    /\ UNCHANGED <<privileged, cicd>>
    /\ UNCHANGED notBuildVars

\* build_ppt: os.chdir(dirs.toolchain), os.chdir(toolchain), the triplet and
\* the check of archdir.exists().
ppt_resolve ==
    /\ bpc = "resolve"
    /\ variant = "ppt"
    /\ IF PptToolchain \notin fs
       THEN /\ Raise("FileNotFoundError", "chdir")
            /\ UNCHANGED events
       ELSE /\ cwd' = PptToolchain
            /\ events' = Append(events,
                  [op |-> IF ToolchainBuilt THEN "resolve_hit" ELSE "resolve_miss",
                   cwd |-> PptToolchain, rc |-> 0, env |-> {}])
            /\ bpc' = IF ToolchainBuilt THEN "archive" ELSE "config"
            /\ UNCHANGED outcome
    /\ UNCHANGED <<variant, arg, cwd0, fs, partial, okBefore, hcall>>
    /\ UNCHANGED <<auxStamp, archived, published>>
    /\ UNCHANGED <<privileged, cicd>>
    /\ UNCHANGED notBuildVars

\* The config file: sys.exit(1) when it is missing, else its text is written
\* to ctngdir/.config; then os.chdir(ctngdir).
write_config ==
    /\ bpc = "config"
    /\ IF ConfigMissing
       THEN /\ events' = Append(events, Ev("print_config_missing", 0))
            /\ Raise("SystemExit", "1")
            /\ UNCHANGED fs
       ELSE IF Config \notin fs
       THEN /\ Raise("FileNotFoundError", "open")
            /\ UNCHANGED <<fs, events>>
       ELSE /\ events' = Append(events, Ev("write_config", 0))
            /\ fs' = fs \cup {DotConfig}
            /\ cwd' = GenDir
            /\ bpc' = "source"
            /\ UNCHANGED outcome
    /\ UNCHANGED <<variant, arg, cwd0, partial, okBefore, hcall>>
    /\ UNCHANGED <<auxStamp, archived, published>>
    /\ UNCHANGED <<privileged, cicd>>
    /\ UNCHANGED notBuildVars

\* runcmd([ctng, "source"], env=env)
generator_source(rc) ==
    /\ bpc = "source"
    /\ runcmd("generator_source", rc, fs, "ctbuild")
    /\ UNCHANGED <<variant, arg, cwd0, partial, okBefore, hcall>>
    /\ UNCHANGED <<auxStamp, archived, published>>
    /\ UNCHANGED <<privileged, cicd>>
    /\ UNCHANGED notBuildVars

\* runcmd([ctng, "build"], env=env): a build that exits with zero has made
\* archdir and its bin; one that fails may leave archdir behind (left:
\* "none", "dir", or "bin" for archdir with its bin).
generator_build(rc, left) ==
    /\ bpc = "ctbuild"
    /\ (rc = 0) <=> (left = "whole")
    /\ runcmd("generator_build", rc,
              fs \cup (IF left = "none" THEN {}
                       ELSE IF left = "dir" THEN {ArchDir}
                       ELSE {ArchDir, ArchBin}),
              IF variant = "ppbt" THEN "aux" ELSE "archive")
    /\ partial' = IF left \in {"dir", "bin"} THEN partial \cup {ArchDir} ELSE partial
    /\ UNCHANGED <<variant, arg, cwd0, okBefore, hcall>>
    /\ UNCHANGED <<auxStamp, archived, published>>
    /\ UNCHANGED <<privileged, cicd>>
    /\ UNCHANGED notBuildVars

\* build_ppbt: the patchelf source; fetched when build/patchelf-0.18.0 is not
\* there, and only then os.chdir(source).
aux_download(ok) ==
    /\ bpc = "aux"
    /\ IF AuxAcquired
       THEN /\ ok
            /\ bpc' = "aux_configure"
            /\ UNCHANGED <<cwd, fs, events, outcome>>
       ELSE /\ events' = Append(events, Ev("download_aux", IF ok THEN 0 ELSE 1))
            /\ IF ok
               THEN /\ fs' = fs \cup {AuxTar}
                    /\ bpc' = "extract_aux"
                    /\ UNCHANGED <<cwd, outcome>>
               ELSE /\ fs' = fs \ {AuxTar}
                    /\ Raise("URLError", "download_aux")
    /\ UNCHANGED <<variant, arg, cwd0, partial, okBefore, hcall>>
    /\ UNCHANGED <<auxStamp, archived, published>>
    /\ UNCHANGED <<privileged, cicd>>
    /\ UNCHANGED notBuildVars

\* extract_archive(build, archive) and os.chdir(source).
aux_extract(res) ==
    /\ bpc = "extract_aux"
    /\ events' = Append(events, Ev("extract_aux", IF res = "ok" THEN 0 ELSE 1))
    /\ fs' = IF res = "early" THEN fs ELSE fs \cup {AuxDir}
    /\ partial' = IF res = "partial" THEN partial \cup {AuxDir} ELSE partial
    /\ IF res = "ok"
       THEN /\ cwd' = AuxDir
            /\ bpc' = "aux_configure"
            /\ UNCHANGED outcome
       ELSE Raise("ReadError", "extract_aux")
    /\ UNCHANGED <<variant, arg, cwd0, okBefore, hcall>>
    /\ UNCHANGED <<auxStamp, archived, published>>
    /\ UNCHANGED <<privileged, cicd>>
    /\ UNCHANGED notBuildVars

\* subprocess.run(["./configure"]) when the patchelf executable is not there,
\* in whatever directory the process stands in.
aux_configure(rc) ==
    /\ bpc = "aux_configure"
    /\ IF AuxCompiled
       THEN /\ rc = 0
            /\ bpc' = "aux_copy"
            /\ UNCHANGED <<cwd, fs, events, outcome>>
       ELSE subprocess_run("configure_aux", rc, fs, "aux_make")
    /\ UNCHANGED <<variant, arg, cwd0, partial, okBefore, hcall>>
    /\ UNCHANGED <<auxStamp, archived, published>>
    /\ UNCHANGED <<privileged, cicd>>
    /\ UNCHANGED notBuildVars

\* subprocess.run(["make"]): it can exit with zero only after a configure
\* that did, and it builds patchelf only in the patchelf source directory.
aux_make(rc) ==
    /\ bpc = "aux_make"
    /\ (rc = 0) => events[Len(events)].rc = 0
    /\ subprocess_run("make_aux", rc,
                      IF rc = 0 /\ cwd = AuxDir THEN fs \cup {AuxExe} ELSE fs,
                      "aux_copy")
    /\ UNCHANGED <<variant, arg, cwd0, partial, okBefore, hcall>>
    /\ UNCHANGED <<auxStamp, archived, published>>
    /\ UNCHANGED <<privileged, cicd>>
    /\ UNCHANGED notBuildVars

\* shutil.copy(source/src/patchelf, build/triplet/bin/patchelf) and
\* os.chdir(build).
aux_copy ==
    /\ bpc = "aux_copy"
    /\ IF AuxExe \notin fs \/ ArchBin \notin fs
       THEN /\ Raise("FileNotFoundError", "copy_aux")
            /\ UNCHANGED <<fs, events, auxStamp>>
       ELSE /\ events' = Append(events, Ev("copy_aux", 0))
            /\ fs' = fs \cup {ArchAux}
            /\ auxStamp' = auxStamp + 1
            /\ cwd' = WorkDir
            /\ bpc' = "archive"
            /\ UNCHANGED outcome
    /\ UNCHANGED <<variant, arg, cwd0, partial, okBefore, hcall>>
    /\ UNCHANGED <<archived, published>>
    /\ UNCHANGED <<privileged, cicd>>
    /\ UNCHANGED notBuildVars

\* build_ppbt: subprocess.run(["tar", "-C", build, "-cJf", archive, triplet]),
\* its exit status not looked at.  A tar that fails may leave a cut archive.
ppbt_archive(rc, left) ==
    /\ bpc = "archive"
    /\ variant = "ppbt"
    /\ (rc = 0) => left
    /\ subprocess_run("create_archive", rc,
                      IF left THEN fs \cup {Archive} ELSE fs \ {Archive},
                      "manifest")
    /\ partial' = IF rc # 0 /\ left THEN partial \cup {Archive} ELSE partial \ {Archive}
    /\ archived' = IF left THEN TarOf(rc = 0) ELSE NoArchive
    /\ UNCHANGED <<variant, arg, cwd0, okBefore, hcall>>
    /\ UNCHANGED <<auxStamp, published>>
    /\ UNCHANGED <<privileged, cicd>>
    /\ UNCHANGED notBuildVars

\* build_ppbt: the manifest, written while walking archdir.  A listed file
\* that cannot be opened raises FileNotFoundError out of the walk (ok false).
ppbt_manifest(ok) ==
    /\ bpc = "manifest"
    /\ events' = Append(events, Ev("write_manifest", IF ok THEN 0 ELSE 1))
    /\ fs' = fs \cup {Record}
    /\ partial' = IF ok THEN partial \ {Record} ELSE partial \cup {Record}
    /\ IF ok
       THEN bpc' = "publish" /\ UNCHANGED <<cwd, outcome>>
       ELSE Raise("FileNotFoundError", "write_manifest")
    /\ UNCHANGED <<variant, arg, cwd0, okBefore, hcall>>
    /\ UNCHANGED <<auxStamp, archived, published>>
    /\ UNCHANGED <<privileged, cicd>>
    /\ UNCHANGED notBuildVars

\* build_ppbt: shutil.copy(archive, toolchain), shutil.copy(record, toolchain)
\* and the normal end of the call.
ppbt_publish ==
    /\ bpc = "publish"
    /\ IF Archive \notin fs
       THEN /\ Raise("FileNotFoundError", "copy_archive")
            /\ UNCHANGED <<fs, partial, events, published>>
       ELSE /\ events' = events \o << Ev("copy_archive", 0), Ev("copy_manifest", 0) >>
            /\ published' = Append(published, archived)
            /\ fs' = fs \cup {PkgArchive, PkgRecord}
            /\ partial' = (partial \ {PkgArchive, PkgRecord})
                            \cup (IF Archive \in partial THEN {PkgArchive} ELSE {})
            /\ outcome' = Ok
            /\ Finally
            /\ bpc' = "end"
    /\ UNCHANGED <<variant, arg, cwd0, okBefore, hcall>>
    /\ UNCHANGED <<auxStamp, archived>>
    /\ UNCHANGED <<privileged, cicd>>
    /\ UNCHANGED notBuildVars

\* build_ppt: tarfile.open(archive, "w:xz") in the directory the process
\* stands in, and fp.add of every file of archdir by its path relative to
\* toolchain.  Standing in ctngdir (the toolchain was just built) the first
\* file is not found; ok false: a listed file cannot be opened.
ppt_archive(ok) ==
    /\ bpc = "archive"
    /\ variant = "ppt"
    /\ IF cwd # PptToolchain
       THEN /\ ~ok
            /\ events' = Append(events, Ev("create_archive", 1))
            /\ fs' = fs \cup {StrayArchive}
            /\ partial' = partial \cup {StrayArchive}
            /\ Raise("FileNotFoundError", "create_archive")
            /\ UNCHANGED archived
       ELSE /\ events' = Append(events, Ev("create_archive", IF ok THEN 0 ELSE 1))
            /\ fs' = fs \cup {Archive}
            /\ archived' = TarOf(ok)
            /\ partial' = IF ok THEN partial \ {Archive} ELSE partial \cup {Archive}
            /\ IF ok
               THEN bpc' = "move" /\ UNCHANGED <<cwd, outcome>>
               ELSE Raise("FileNotFoundError", "create_archive")
    /\ UNCHANGED <<variant, arg, cwd0, okBefore, hcall>>
    /\ UNCHANGED <<auxStamp, published>>
    /\ UNCHANGED <<privileged, cicd>>
    /\ UNCHANGED notBuildVars

\* build_ppt: shutil.move(archive, dirs.toolchain_config), which refuses to
\* replace a file of that name in the directory, and the normal end.
ppt_move ==
    /\ bpc = "move"
    /\ IF PkgArchive \in fs
       THEN /\ Raise("shutil.Error", "move_archive")
            /\ UNCHANGED <<fs, events, published>>
       ELSE /\ events' = Append(events, Ev("move_archive", 0))
            /\ published' = Append(published, archived)
            /\ fs' = (fs \ {Archive}) \cup {PkgArchive}
            /\ outcome' = Ok
            /\ Finally
            /\ bpc' = "end"
    /\ UNCHANGED <<variant, arg, cwd0, partial, okBefore, hcall>>
    /\ UNCHANGED <<auxStamp, archived>>
    /\ UNCHANGED <<privileged, cicd>>
    /\ UNCHANGED notBuildVars

\* _configure_ctng(ctngdir, dirs) of src/ppt/build.py, a helper: fetch and
\* unpack the generator when its directory is not there, os.chdir(ctngdir),
\* configure and make when ct-ng is not there.  It ends where the exception
\* is raised, or at its last line.
configure_ctng(dl, ex, rc1, rc2) ==
    /\ bpc \in {"idle", "end"}
    /\ variant = "ppt"
    /\ LET fetched == GeneratorAcquired \/ (dl /\ ex)
           entered == fetched
           made == entered /\ (GeneratorCompiled \/ (rc1 = 0 /\ rc2 = 0))
       IN  /\ GeneratorAcquired => (dl /\ ex)
           /\ ~dl => ex
           /\ (~fetched \/ GeneratorCompiled) => (rc1 = 0 /\ rc2 = 0)
           /\ rc1 # 0 => rc2 = 0
           /\ fs' = fs \cup (IF ~GeneratorAcquired /\ dl THEN {GenTar} ELSE {})
                      \cup (IF fetched THEN {GenDir} ELSE {})
                      \cup (IF made THEN {GenExe} ELSE {})
           /\ cwd' = IF entered THEN GenDir ELSE cwd
           /\ hcall' = [name |-> "_configure_ctng", from |-> cwd, raised |-> ~made]
    /\ bpc' = "idle"
    /\ UNCHANGED <<variant, arg, cwd0, partial, events, outcome, okBefore>>
    /\ UNCHANGED <<auxStamp, archived, published>>
    /\ UNCHANGED <<privileged, cicd>>
    /\ UNCHANGED notBuildVars

\* pushd(path) of src/ppt/build.py: orig = os.getcwd(), os.chdir(path), the
\* body of the with statement.
pushd_enter(path) ==
    /\ bpc \in {"idle", "end"}
    /\ variant = "ppt"
    /\ path \in fs
    /\ hcall' = [name |-> "pushd_body", from |-> cwd, raised |-> FALSE]
    /\ cwd' = path
    /\ bpc' = "pushd"
    /\ UNCHANGED <<variant, arg, cwd0, fs, partial, events, outcome, okBefore>>
    /\ UNCHANGED <<auxStamp, archived, published>>
    /\ UNCHANGED <<privileged, cicd>>
    /\ UNCHANGED notBuildVars

\* The body ends, normally or by an exception: finally os.chdir(orig).
pushd_exit(raised) ==
    /\ bpc = "pushd"
    /\ cwd' = hcall.from
    /\ hcall' = [name |-> "pushd", from |-> hcall.from, raised |-> raised]
    /\ bpc' = "idle"
    /\ UNCHANGED <<variant, arg, cwd0, fs, partial, events, outcome, okBefore>>
    /\ UNCHANGED <<auxStamp, archived, published>>
    /\ UNCHANGED <<privileged, cicd>>
    /\ UNCHANGED notBuildVars

\* A fresh work tree: the package directory with (or without) the config
\* file of this machine and triplet; build_ppbt makes its _toolchain itself.
BuildInit ==
    /\ variant \in {"ppbt", "ppt"}
    /\ arg \in BOOLEAN
    /\ bpc = "idle"
    /\ cwd = Caller
    /\ cwd0 = Caller
    /\ \E c \in SUBSET {Config} :
          fs = c \cup (IF variant = "ppt" THEN {PkgDir} ELSE {})
    /\ partial = {}
    /\ events = <<>>
    /\ outcome = Running
    /\ okBefore = FALSE
    /\ hcall = NoHelper
    /\ auxStamp = 0
    /\ archived = NoArchive
    /\ published = <<>>
    /\ privileged \in BOOLEAN
    /\ cicd \in BOOLEAN

BuildNext ==
    \/ build_begin
    \/ \E rc \in {0, 1}, left \in BOOLEAN : acquire_clone(rc, left)
    \/ \E ok \in BOOLEAN : acquire_download(ok)
    \/ \E res \in {"ok", "early", "partial"} : acquire_extract(res)
    \/ enter_generator
    \/ \E rc \in {0, 1} : configure_generator(rc)
    \/ \E rc \in {0, 1} : make_generator(rc)
    \/ ppbt_resolve
    \/ ppt_resolve
    \/ write_config
    \/ \E rc \in {0, 1} : generator_source(rc)
    \/ \E rc \in {0, 1}, left \in {"none", "dir", "bin", "whole"} : generator_build(rc, left)
    \/ \E ok \in BOOLEAN : aux_download(ok)
    \/ \E res \in {"ok", "early", "partial"} : aux_extract(res)
    \/ \E rc \in {0, 1} : aux_configure(rc)
    \/ \E rc \in {0, 1} : aux_make(rc)
    \/ aux_copy
    \/ \E rc \in {0, 1}, left \in BOOLEAN : ppbt_archive(rc, left)
    \/ \E ok \in BOOLEAN : ppbt_manifest(ok)
    \/ ppbt_publish
    \/ \E ok \in BOOLEAN : ppt_archive(ok)
    \/ ppt_move
    \/ \E dl \in BOOLEAN, ex \in BOOLEAN, rc1 \in {0, 1}, rc2 \in {0, 1} :
          configure_ctng(dl, ex, rc1, rc2)
    \/ \E path \in {WorkDir, GenDir, PkgDir} : pushd_enter(path)
    \/ \E raised \in BOOLEAN : pushd_exit(raised)

(***************************************************************************)
(* Triplet resolver: get_triplet and build_arch of src/ppbt/common.py and  *)
(* of src/ppt/build.py.  The empty string stands for an argument that is   *)
(* None or empty: both are false in "if not plat".                         *)
(***************************************************************************)

\* The machines of the arches table of src/ppt/build.py, and no machine.
Machines == {"", "x86_64", "aarch64", "arm64", "amd64", "x86"}
\* Values of sys.platform, and no platform.
Platforms == {"", "linux", "darwin", "win32", "freebsd13", "cygwin"}
\* What sys.platform and platform.machine() give on the hosts considered.
HostPlatforms == {"linux", "darwin", "win32", "freebsd13"}
HostMachines == {"x86_64", "AMD64", "aarch64"}

\* str.lower() on the machine names above.
Lower(s) == IF s = "AMD64" THEN "amd64" ELSE s

\* build_arch(): platform.machine().lower()
build_arch == Lower(platform_machine)

NoTriplet == [kind |-> "none", val |-> ""]
TReturn(v) == [kind |-> "return", val |-> v]
TRaise(e) == [kind |-> "raise", val |-> e]

\* What the raise statement of the last branch raises.  src/ppbt/common.py
\* raises PPBTException; src/ppt/build.py names RelenvException, which that
\* module neither defines nor imports, so evaluating the name raises
\* NameError.
UnknownPlatform(v) == IF v = "ppbt" THEN "PPBTException" ELSE "NameError"

get_triplet(v, m, p) ==
    LET plat1 == IF p = "" THEN sys_platform ELSE p
        machine1 == IF m = "" THEN build_arch ELSE m
    IN  IF plat1 = "darwin" THEN TReturn(machine1 \o "-macos")
        ELSE IF plat1 = "win32" THEN TReturn(machine1 \o "-win")
        ELSE IF plat1 = "linux" THEN TReturn(machine1 \o "-linux-gnu")
        ELSE TRaise(UnknownPlatform(v))

\* One call get_triplet(m, p) of module v.
get_triplet_call(v, m, p) ==
    /\ tvariant' = v
    /\ machine' = m
    /\ plat' = p
    /\ tres' = get_triplet(v, m, p)
    /\ UNCHANGED <<sys_platform, platform_machine, names>>
    /\ UNCHANGED notTripletVars

\* The places that derive an archive name, a manifest name or a toolchain
\* subdirectory: build_ppbt and the constants of src/ppbt/common.py;
\* build_ppt, archived_build and get_toolchain of src/ppt/build.py and the
\* constants of src/ppt/common.py and src/ppt/environ.py.
Sites == {"build_ppbt", "ppbt.common", "build_ppt", "ppt.common",
          "ppt.environ", "archived_build", "get_toolchain"}
SiteModule(s) == IF s \in {"build_ppbt", "ppbt.common"} THEN "ppbt" ELSE "ppt"

\* f"{triplet}.tar.xz"
ArchiveName(t) == t \o ".tar.xz"
\* f"{triplet}.tar.xz.record", and str(ARCHIVE) + ".record"
RecordName(t) == ArchiveName(t) \o ".record"

\* get_toolchain(arch): the subdirectory of dirs.toolchain it returns; none
\* when arch is None or empty, where it returns dirs.toolchain itself.
get_toolchain(arch) == IF arch # "" THEN arch \o "-linux-gnu" ELSE ""

\* No place has derived anything.  The empty string stands for a name the
\* place does not derive.
NoNames ==
    [site |-> "none", arch |-> "", raised |-> FALSE,
     archive |-> "", record |-> "", dir |-> ""]

\* Place s derives its names on this host.  get_toolchain is called with
\* arch m and calls nothing else; every other place takes build_arch() and
\* the platform of the host through get_triplet, and derives nothing when
\* that raises.  build_ppt and archived_build name no manifest,
\* src/ppt/environ.py opens none, and archived_build gives no directory.
derive_names(s, m) ==
    LET arch == IF s = "get_toolchain" THEN m ELSE build_arch
        t == get_triplet(SiteModule(s), arch, "")
    IN
    /\ names' =
           IF s = "get_toolchain"
             THEN [site |-> s, arch |-> arch, raised |-> FALSE,
                   archive |-> "", record |-> "", dir |-> get_toolchain(arch)]
           ELSE IF t.kind = "raise"
             THEN [site |-> s, arch |-> arch, raised |-> TRUE,
                   archive |-> "", record |-> "", dir |-> ""]
           ELSE [site |-> s, arch |-> arch, raised |-> FALSE,
                 archive |-> ArchiveName(t.val),
                 record |-> IF s \in {"build_ppt", "archived_build", "ppt.environ"}
                              THEN "" ELSE RecordName(t.val),
                 dir |-> IF s = "archived_build" THEN "" ELSE t.val]
    /\ UNCHANGED <<tvariant, machine, plat, sys_platform, platform_machine, tres>>
    /\ UNCHANGED notTripletVars

TripletInit ==
    /\ tvariant = "ppbt"
    /\ machine = ""
    /\ plat = ""
    /\ sys_platform \in HostPlatforms
    /\ platform_machine \in HostMachines
    /\ tres = NoTriplet
    /\ names = NoNames

TripletNext ==
    \/ \E v \in {"ppbt", "ppt"}, m \in Machines, p \in Platforms :
          get_triplet_call(v, m, p)
    \/ \E s \in Sites, m \in Machines : derive_names(s, m)

(***************************************************************************)
(* Extractor and environment: extract and environ of src/ppbt/common.py,   *)
(* environ of src/ppt/common.py and of src/ppt/environ.py.  A record file  *)
(* is the sequence of rows csv.reader reads from it, which is the sequence *)
(* csv.writer wrote; every field of a row is text.                         *)
(***************************************************************************)

\* Paths, as the sequences of code points that str comparison goes by:
\* "a", "a/b" and "b".
PathA == <<97>>
PathAB == <<97, 47, 98>>
PathB == <<98>>

\* Rows <<path, hash, size>> of the installed-file record.
Rows ==
    { <<PathA, "sha256=x", "1">>, <<PathAB, "sha256=x", "1">>,
      <<PathAB, "sha256=y", "2">>, <<PathB, "sha256=x", "1">> }
\* Rows of the archive's manifest.
ManifestRows == { <<PathAB, "sha256=y", "2">>, <<PathA, "sha256=x", "1">> }

BoundedSeq(S, k) == UNION { [1..i -> S] : i \in 0..k }

\* a < b on str: the first differing code point decides, a proper prefix
\* is less.
RECURSIVE StrLess(_, _)
StrLess(a, b) ==
    IF b = <<>> THEN FALSE
    ELSE IF a = <<>> THEN TRUE
    ELSE IF Head(a) # Head(b) THEN Head(a) < Head(b)
    ELSE StrLess(Tail(a), Tail(b))

\* sorted(records, key=lambda _: _[0]): stable, so a row goes after every
\* row before it whose path is not greater.
RECURSIVE InsertRow(_, _)
InsertRow(s, r) ==
    IF s = <<>> THEN <<r>>
    ELSE IF StrLess(r[1], s[Len(s)][1])
    THEN Append(InsertRow(SubSeq(s, 1, Len(s) - 1), r), s[Len(s)])
    ELSE Append(s, r)

RECURSIVE sorted(_)
sorted(s) ==
    IF s = <<>> THEN <<>>
    ELSE InsertRow(sorted(SubSeq(s, 1, Len(s) - 1)), s[Len(s)])

\* The rows written back to RECORD: those read from it, then those read
\* from the manifest, sorted.
Reconcile_unsorted(old, man) == old \o man
Reconcile(old, man) == sorted(old \o man)

\* TOOLCHAIN.exists()
TOOLCHAIN_exists == toolchain # "absent"

\* extract: "if TOOLCHAIN.exists() and not overwrite"
SkipExtract_negationLost(exists, overwrite) == exists /\ overwrite
SkipExtract(exists, overwrite) == exists /\ ~overwrite

\* The triplets of the hosts considered and the places the package can be
\* installed to.
Triplets == {"x86_64-linux-gnu", "aarch64-linux-gnu"}
ToolchainRoots == {"/usr/lib/site-packages/pkg/_toolchain", "/venv/lib/pkg/_toolchain"}

\* How a call is made: the keyword argument omitted, or given.
CallArgs == {"omitted", "False", "True"}

\* environ's auto_extract (default False) and extract's overwrite (default
\* False) as the call binds them.
Given(a) == a = "True"

\* pathlib's a / b as str shows it.
Join(a, b) == a \o "/" \o b

\* The mapping environ returns: src/ppbt/common.py and src/ppt/common.py
\* build it with basebin = TOOLCHAIN / "bin" / TRIPLET.
EnvMapping_cxxIsCc(root, triplet) ==
    LET TOOLCHAIN == Join(root, triplet)
        basebin == Join(Join(TOOLCHAIN, "bin"), triplet)
        include == "-I" \o TOOLCHAIN \o "/" \o triplet \o "/sysroot/usr/include"
    IN  [TOOLCHAIN_PATH |-> TOOLCHAIN,
         CC |-> basebin \o "-gcc",
         CXX |-> basebin \o "-gcc",
         CFLAGS |-> include,
         CPPFLAGS |-> include,
         CMAKE_FLAGS |-> include,
         LDFLAGS |-> "-L" \o TOOLCHAIN \o "/" \o triplet \o "/sysroot/lib"]
EnvMapping(root, triplet) ==
    LET TOOLCHAIN == Join(root, triplet)
        basebin == Join(Join(TOOLCHAIN, "bin"), triplet)
        include == "-I" \o TOOLCHAIN \o "/" \o triplet \o "/sysroot/usr/include"
    IN  [TOOLCHAIN_PATH |-> TOOLCHAIN,
         CC |-> basebin \o "-gcc",
         CXX |-> basebin \o "-g++",
         CFLAGS |-> include,
         CPPFLAGS |-> include,
         CMAKE_FLAGS |-> include,
         LDFLAGS |-> "-L" \o TOOLCHAIN \o "/" \o triplet \o "/sysroot/lib"]

\* What a call that does not return from environ gives: no mapping.
NoMapping == [k \in {} |-> ""]

NoCall ==
    [op |-> "none", a |-> "omitted", unpacked |-> FALSE, res |-> "none",
     tree |-> "absent", hadRecord |-> FALSE, rows |-> <<>>, env |-> NoMapping]
\* A call, with the toolchain directory and the record as it found them, and
\* the mapping when it is environ that returns.
Call(op, a, unpacked, res) ==
    [op |-> op, a |-> a, unpacked |-> unpacked, res |-> res,
     tree |-> toolchain, hadRecord |-> recordExists, rows |-> record,
     env |-> IF op = "environ" /\ res = "returned"
             THEN EnvMapping(eroot, etriplet)
             ELSE NoMapping]

NothingExtracted ==
    UNCHANGED <<toolchain, recordExists, record, plainUnpacks, forcedUnpacks>>

\* extract_archive(TOOLCHAIN_ROOT, ARCHIVE) and the update of RECORD that
\* follows it.  A missing archive raises at tarfile.open; a truncated one
\* raises out of extractall, after it made the toolchain directory (made) or
\* before.  forced: the call is extract(overwrite=True).  reconciles: the
\* module updates RECORD.  after: how the caller ends when this returns.
Unpack(op, a, forced, made, reconciles, after) ==
    IF archive = "missing"
    THEN /\ ecall' = Call(op, a, FALSE, "FileNotFoundError")
         /\ NothingExtracted
    ELSE IF archive = "truncated"
    THEN /\ toolchain' = IF made \/ TOOLCHAIN_exists THEN "partial" ELSE "absent"
         /\ ecall' = Call(op, a, FALSE, "ReadError")
         /\ UNCHANGED <<recordExists, record, plainUnpacks, forcedUnpacks>>
    ELSE /\ toolchain' = "complete"
         /\ plainUnpacks' = IF forced THEN plainUnpacks ELSE plainUnpacks + 1
         /\ forcedUnpacks' = IF forced THEN forcedUnpacks + 1 ELSE forcedUnpacks
         /\ UNCHANGED recordExists
         /\ IF reconciles /\ recordExists
            THEN IF manifestExists
                 THEN /\ record' = Reconcile(record, manifest)
                      /\ ecall' = Call(op, a, TRUE, after)
                 ELSE /\ ecall' = Call(op, a, TRUE, "FileNotFoundError")
                      /\ UNCHANGED record
            ELSE /\ ecall' = Call(op, a, TRUE, after)
                 /\ UNCHANGED record

\* The body of extract(overwrite), reached from call op made with a.
extract_body(op, a, overwrite, made) ==
    IF SkipExtract(TOOLCHAIN_exists, overwrite)
    THEN /\ ecall' = Call(op, a, FALSE, "returned")
         /\ NothingExtracted
    ELSE Unpack(op, a, overwrite, made, TRUE, "returned")

\* extract(overwrite=a) of src/ppbt/common.py.
extract(a, made) ==
    /\ evariant = "ppbt"
    /\ Given(a) => forcedUnpacks < MaxForced
    /\ extract_body("extract", a, Given(a), made)
    /\ UNCHANGED <<evariant, etriplet, eroot, archive, manifestExists, manifest>>
    /\ UNCHANGED notEnvVars

\* environ(auto_extract=a) of src/ppbt/common.py.
environ(a, made) ==
    /\ evariant = "ppbt"
    /\ IF TOOLCHAIN_exists
       THEN /\ ecall' = Call("environ", a, FALSE, "returned")
            /\ NothingExtracted
       ELSE IF Given(a)
       THEN extract_body("environ", a, FALSE, made)
       ELSE /\ ecall' = Call("environ", a, FALSE, "RuntimeError")
            /\ NothingExtracted
    /\ UNCHANGED <<evariant, etriplet, eroot, archive, manifestExists, manifest>>
    /\ UNCHANGED notEnvVars

\* How environ() of a ppt module ends once the toolchain is there:
\* src/ppt/common.py returns the mapping; src/ppt/environ.py adds a str to a
\* Path while it builds the mapping, which raises TypeError.
PptMapping == IF evariant = "ppt_environ" THEN "TypeError" ELSE "returned"

\* environ() of src/ppt/common.py and of src/ppt/environ.py.  The function
\* takes no argument, so a call that gives auto_extract raises TypeError
\* before the body runs; only src/ppt/common.py updates RECORD.
ppt_environ(a, made) ==
    /\ evariant \in {"ppt_common", "ppt_environ"}
    /\ IF a # "omitted"
       THEN /\ ecall' = Call("environ", a, FALSE, "TypeError")
            /\ NothingExtracted
       ELSE IF TOOLCHAIN_exists
       THEN /\ ecall' = Call("environ", a, FALSE, PptMapping)
            /\ NothingExtracted
       ELSE Unpack("environ", a, FALSE, made, evariant = "ppt_common", PptMapping)
    /\ UNCHANGED <<evariant, etriplet, eroot, archive, manifestExists, manifest>>
    /\ UNCHANGED notEnvVars

\* An installed package in a fresh process: the toolchain not yet extracted,
\* or extracted by an earlier process; RECORD as the installer left it, in
\* whatever order.
EnvInit ==
    /\ evariant \in {"ppbt", "ppt_common", "ppt_environ"}
    /\ etriplet \in Triplets
    /\ eroot \in ToolchainRoots
    /\ toolchain \in {"absent", "complete"}
    /\ archive \in {"ok", "missing", "truncated"}
    /\ manifestExists \in BOOLEAN
    /\ manifest \in BoundedSeq(ManifestRows, MaxRows)
    /\ ~manifestExists => manifest = <<>>
    /\ recordExists \in BOOLEAN
    /\ record \in BoundedSeq(Rows, MaxRows)
    /\ ~recordExists => record = <<>>
    /\ plainUnpacks = 0
    /\ forcedUnpacks = 0
    /\ ecall = NoCall

EnvNext ==
    \/ \E a \in CallArgs, made \in BOOLEAN : extract(a, made)
    \/ \E a \in CallArgs, made \in BOOLEAN : environ(a, made)
    \/ \E a \in CallArgs, made \in BOOLEAN : ppt_environ(a, made)

(***************************************************************************)
(* Archiver, manifest and archive codec: the archive and manifest steps of *)
(* build_ppbt (src/ppbt/build.py), the archive step of build_ppt           *)
(* (src/ppt/build.py) and extract_archive (src/ppbt/common.py,             *)
(* src/ppt/build.py).  A path is the sequence of its segments; a tree maps *)
(* the paths below build (or toolchain) to what is there.                  *)
(***************************************************************************)

\* triplet, the name of archdir.
TripletDir == "x86_64-linux-gnu"

\* What can stand at a path: a directory, a regular file with its bytes, or
\* a symbolic link with the name it points to in its own directory.
DirEntry == [kind |-> "dir", data |-> <<>>, to |-> ""]
FileEntry(d) == [kind |-> "file", data |-> d, to |-> ""]
LinkEntry(t) == [kind |-> "link", data |-> <<>>, to |-> t]

\* The built trees considered: bin with or without gcc (two contents), cc
\* absent or a link to gcc or to a name that is not there, an empty share,
\* and lib with libc.so.
TreeOf(gcc, cc, share, lib) ==
    LET P_root == <<TripletDir>>
        P_bin == <<TripletDir, "bin">>
        P_gcc == <<TripletDir, "bin", "gcc">>
        P_cc == <<TripletDir, "bin", "cc">>
        P_share == <<TripletDir, "share">>
        P_lib == <<TripletDir, "lib">>
        P_libc == <<TripletDir, "lib", "libc.so">>
        paths == {P_root, P_bin}
                   \cup (IF gcc # <<>> THEN {P_gcc} ELSE {})
                   \cup (IF cc # "" THEN {P_cc} ELSE {})
                   \cup (IF share THEN {P_share} ELSE {})
                   \cup (IF lib THEN {P_lib, P_libc} ELSE {})
    IN  [p \in paths |->
            IF p = P_gcc THEN FileEntry(gcc)
            ELSE IF p = P_cc THEN LinkEntry(cc)
            ELSE IF p = P_libc THEN FileEntry(<<7>>)
            ELSE DirEntry]

Trees ==
    { TreeOf(gcc, cc, share, lib) :
        gcc \in {<<>>, <<7>>, <<7, 8>>}, cc \in {"", "gcc", "gone"},
        share \in BOOLEAN, lib \in BOOLEAN }

Parent(p) == SubSeq(p, 1, Len(p) - 1)

\* open(path, "rb").read(): the bytes of a regular file, those of the file
\* a link leads to, or no file.
NoFile == <<-1>>
ReadBytes(t, p) ==
    IF t[p].kind = "file" THEN t[p].data
    ELSE IF t[p].kind = "link"
    THEN LET target == Append(Parent(p), t[p].to)
         IN  IF target \in DOMAIN t /\ t[target].kind = "file"
             THEN t[target].data
             ELSE NoFile
    ELSE NoFile

\* What os.walk lists as files of a directory: every entry that is not a
\* directory.
WalkFiles(t) == { p \in DOMAIN t : t[p].kind # "dir" }

\* The orders os.walk can give them in: the files of one directory together,
\* the directories and the files within one in any order.
WalkOrders(t) ==
    { o \in [1..Cardinality(WalkFiles(t)) -> WalkFiles(t)] :
        /\ \A i, j \in DOMAIN o : i # j => o[i] # o[j]
        /\ \A i, j, k \in DOMAIN o :
              (i < j /\ j < k /\ Parent(o[i]) = Parent(o[k]))
                  => Parent(o[j]) = Parent(o[i]) }

\* The digest of the bytes, as text: base64.urlsafe_b64encode of the SHA-256
\* digest without its padding.  Equal bytes, equal text; different bytes,
\* different text.
Sha256Text(d) == <<"b64", "sha256", d>>

\* str(len(data)) as csv.writer writes it.
LenText(d) ==
    IF Len(d) = 0 THEN "0" ELSE IF Len(d) = 1 THEN "1" ELSE IF Len(d) = 2 THEN "2" ELSE "many"

\* hashpath: pathlib.Path("ppbt") / "_toolchain" / relpath
hashpath_buildtime(relpath) == <<"build">> \o relpath
hashpath(relpath) == <<"ppbt", "_toolchain">> \o relpath

\* rwriter.writerow([hashpath, f"sha256={hsh}", len(data)])
ManifestRow(t, p) ==
    <<hashpath(p), <<"sha256=", Sha256Text(ReadBytes(t, p))>>, LenText(ReadBytes(t, p))>>

\* The rows written walking in order o, up to the first file that cannot be
\* opened.
RECURSIVE WrittenRows(_, _)
WrittenRows(t, o) ==
    IF o = <<>> THEN <<>>
    ELSE IF ReadBytes(t, Head(o)) = NoFile THEN <<>>
    ELSE <<ManifestRow(t, Head(o))>> \o WrittenRows(t, Tail(o))

\* A member of an archive: its name (a relative path as written) and what
\* it holds.
Member(name, e) == [name |-> name, entry |-> e]

\* The paths of a tree in the order tar and os.walk go down it: a directory
\* before what is in it.
RECURSIVE TopDown(_)
TopDown(S) ==
    IF S = {} THEN <<>>
    ELSE LET p == CHOOSE q \in S : \A r \in S : Len(q) <= Len(r)
         IN  <<p>> \o TopDown(S \ {p})

\* tar -C build -cJf archive triplet: every entry of the tree, directories
\* and links as such.
TarOfTree(t) ==
    LET o == TopDown(DOMAIN t)
    IN  [i \in DOMAIN o |-> Member(o[i], t[o[i]])]

\* build_ppt: fp.add(relpath, relpath, recursive=False) for the files
\* os.walk lists; a directory is never added.
TarOfFiles(t) ==
    LET o == TopDown(WalkFiles(t))
    IN  [i \in DOMAIN o |-> Member(o[i], t[o[i]])]

\* The package directory's parent, TOOLCHAIN_ROOT below it, and a place
\* beside TOOLCHAIN_ROOT.
SitePackages == <<"site-packages">>
TOOLCHAIN_ROOT == SitePackages \o <<"ppbt", "_toolchain">>

\* An archive that was not made by the pipeline: members under harmless
\* names and under names that lead out of the directory.
ForeignMembers ==
    { Member(<<"ok.txt">>, FileEntry(<<7>>)),
      Member(<<"..", "evil">>, FileEntry(<<8>>)),
      Member(<<"sub", "..", "..", "..", "evil">>, FileEntry(<<8>>)) }
ForeignArchives ==
    { <<m>> : m \in ForeignMembers }
      \cup { <<m1, m2>> : m1 \in ForeignMembers, m2 \in ForeignMembers }

\* os.path.normpath / realpath of a path without links: ".." takes the
\* segment before it away.
RECURSIVE Resolve(_)
Resolve(p) ==
    IF p = <<>> THEN <<>>
    ELSE LET r == Resolve(Parent(p))
             s == p[Len(p)]
         IN  IF s = ".." THEN (IF r = <<>> THEN <<>> ELSE Parent(r))
             ELSE Append(r, s)

Under(p, d) == Len(p) >= Len(d) /\ SubSeq(p, 1, Len(d)) = d

\* The default extraction filter of the interpreter: none ("fully_trusted",
\* Python up to 3.13) or "data" (from 3.14), which refuses a member whose
\* path leaves the destination.
TarDefaults == {"fully_trusted", "data"}

\* Writing entry e at path p, with the directories above it that are not
\* there yet.
RECURSIVE PutEntry(_, _, _)
PutEntry(f, p, e) ==
    LET g == IF Len(p) > 1 /\ Parent(p) \notin DOMAIN f
             THEN PutEntry(f, Parent(p), DirEntry)
             ELSE f
    IN  [q \in DOMAIN g \cup {p} |-> IF q = p THEN e ELSE g[q]]

\* t.extractall(to_dir): member after member; under the "data" filter the
\* first member that leaves to_dir raises, the ones before it stay written.
RECURSIVE ExtractAll(_, _, _, _)
ExtractAll(f, to_dir, members, filter) ==
    IF members = <<>> THEN [files |-> f, res |-> "returned"]
    ELSE LET m == Head(members)
             p == Resolve(to_dir \o m.name)
         IN  IF filter = "data" /\ ~Under(p, to_dir)
             THEN [files |-> f, res |-> "OutsideDestinationError"]
             ELSE ExtractAll(PutEntry(f, p, m.entry), to_dir, Tail(members), filter)

NoFiles == [p \in {} |-> DirEntry]

\* The archive step of build_ppbt: the tar subprocess.
ppbt_tar ==
    /\ apc = "built"
    /\ akind = "ppbt"
    /\ tarball' = TarOfTree(tree)
    /\ apc' = "archived"
    /\ UNCHANGED <<akind, tree, tarDefault, mrows, dest, ares>>
    /\ UNCHANGED notArchVars

\* The archive step of build_ppt: tarfile over os.walk.
ppt_tarfile ==
    /\ apc = "built"
    /\ akind = "ppt"
    /\ tarball' = TarOfFiles(tree)
    /\ apc' = "archived"
    /\ UNCHANGED <<akind, tree, tarDefault, mrows, dest, ares>>
    /\ UNCHANGED notArchVars

\* The manifest step of build_ppbt, walking in one of the orders os.walk
\* can take.
write_manifest ==
    /\ apc = "archived"
    /\ akind = "ppbt"
    /\ \E o \in WalkOrders(tree) :
          /\ mrows' = WrittenRows(tree, o)
          /\ ares' = IF Len(WrittenRows(tree, o)) = Len(o) THEN "returned" ELSE "FileNotFoundError"
    /\ apc' = "manifested"
    /\ UNCHANGED <<akind, tree, tarDefault, tarball, dest>>
    /\ UNCHANGED notArchVars

\* An archive from elsewhere is what extract_archive is given.
foreign_archive(a) ==
    /\ apc = "built"
    /\ tarball' = a
    /\ apc' = "foreign"
    /\ UNCHANGED <<akind, tree, tarDefault, mrows, dest, ares>>
    /\ UNCHANGED notArchVars

\* extract_archive(TOOLCHAIN_ROOT, archive) into a directory with nothing
\* in it.
extract_archive ==
    /\ apc = (IF akind = "ppbt" THEN "manifested" ELSE "archived") \/ apc = "foreign"
    /\ LET x == ExtractAll(NoFiles, TOOLCHAIN_ROOT, tarball, tarDefault)
       IN  /\ dest' = x.files
           /\ ares' = x.res
    /\ apc' = IF apc = "foreign" THEN "extracted_foreign" ELSE "extracted"
    /\ UNCHANGED <<akind, tree, tarDefault, tarball, mrows>>
    /\ UNCHANGED notArchVars

\* A tree that the pipeline has built, on some interpreter.
ArchInit ==
    /\ akind \in {"ppbt", "ppt"}
    /\ tree \in Trees
    /\ tarDefault \in TarDefaults
    /\ tarball = <<>>
    /\ mrows = <<>>
    /\ dest = NoFiles
    /\ ares = "none"
    /\ apc = "built"

ArchNext ==
    \/ ppbt_tar
    \/ ppt_tarfile
    \/ write_manifest
    \/ \E a \in ForeignArchives : foreign_archive(a)
    \/ extract_archive

(***************************************************************************)
(* The specifications.  Each takes one part of the program from its        *)
(* initial state and leaves the other parts where they start.              *)
(***************************************************************************)
FetchParked ==
    /\ fpc = "idle"
    /\ url = <<"crosstool-ng.org", "download", "crosstool-ng", "crosstool-ng-1.26.0.tar.bz2">>
    /\ backoff = 3
    /\ n = 0
    /\ conn = <<>>
    /\ fin = 0
    /\ opened = {}
    /\ body = 0
    /\ flen = 0
    /\ slept = <<>>
    /\ dir = <<>>
    /\ dir0 = <<>>
    /\ fres = NoResult

BuildParked ==
    /\ variant = "ppbt"
    /\ arg = FALSE
    /\ bpc = "idle"
    /\ cwd = Caller
    /\ cwd0 = Caller
    /\ fs = {}
    /\ partial = {}
    /\ events = <<>>
    /\ outcome = Running
    /\ okBefore = FALSE
    /\ hcall = NoHelper
    /\ auxStamp = 0
    /\ archived = NoArchive
    /\ published = <<>>
    /\ privileged = FALSE
    /\ cicd = FALSE

TripletParked ==
    /\ tvariant = "ppbt"
    /\ machine = ""
    /\ plat = ""
    /\ sys_platform = "linux"
    /\ platform_machine = "x86_64"
    /\ tres = NoTriplet
    /\ names = NoNames

EnvParked ==
    /\ evariant = "ppbt"
    /\ etriplet = "x86_64-linux-gnu"
    /\ eroot = "/usr/lib/site-packages/pkg/_toolchain"
    /\ toolchain = "absent"
    /\ archive = "ok"
    /\ manifestExists = FALSE
    /\ manifest = <<>>
    /\ recordExists = FALSE
    /\ record = <<>>
    /\ plainUnpacks = 0
    /\ forcedUnpacks = 0
    /\ ecall = NoCall

ArchParked ==
    /\ akind = "ppbt"
    /\ tree = TreeOf(<<>>, "", FALSE, FALSE)
    /\ tarDefault = "fully_trusted"
    /\ tarball = <<>>
    /\ mrows = <<>>
    /\ dest = NoFiles
    /\ ares = "none"
    /\ apc = "built"

InitFetch == FetchInit /\ BuildParked /\ TripletParked /\ EnvParked /\ ArchParked
Init == BuildInit /\ FetchParked /\ TripletParked /\ EnvParked /\ ArchParked
InitTriplet == TripletInit /\ FetchParked /\ BuildParked /\ EnvParked /\ ArchParked
InitEnv == EnvInit /\ FetchParked /\ BuildParked /\ TripletParked /\ ArchParked
InitArch == ArchInit /\ FetchParked /\ BuildParked /\ TripletParked /\ EnvParked

SpecFetch == InitFetch /\ [][FetchNext]_vars
Spec == Init /\ [][BuildNext]_vars
SpecTriplet == InitTriplet /\ [][TripletNext]_vars
SpecEnv == InitEnv /\ [][EnvNext]_vars
SpecArch == InitArch /\ [][ArchNext]_vars

(***************************************************************************)
(* Properties of the fetcher.                                              *)
(***************************************************************************)

\* The failures the specification calls transient.
TransientKinds == { "HTTPError", "URLError", "RemoteDisconnected" }

\* The attempts failed transiently some number of times and every attempt
\* after those succeeded.
FailsThenSucceeds(c) ==
    \E j \in 0..Len(c) :
        /\ \A i \in 1..j : c[i] \in TransientKinds
        /\ \A i \in (j + 1)..Len(c) : c[i] = "ok"

Failures(c) == Cardinality({ i \in 1..Len(c) : c[i] \in TransientKinds })

BodyFailed == fres.kind = "raised" /\ fres.exc \in { "IncompleteRead", "OSError" }

Files(d) == DOMAIN d

C1_WitnessExhausted ==
    /\ fpc = "done"
    /\ backoff = 2
    /\ Failures(conn) = 2
    /\ fres.kind = "raised"

Allowed(b) == IF b > 1 THEN b ELSE 1

\* The sleeps the specification gives for the attempts c of a call allowed
\* m attempts: i * 10 seconds after the i-th attempt when it failed
\* transiently and was not the last allowed one, in order.
RECURSIVE SleepsFor(_, _)
SleepsFor(c, m) ==
    IF c = <<>> THEN <<>>
    ELSE LET i == Len(c)
             before == SleepsFor(SubSeq(c, 1, i - 1), m)
         IN  IF c[i] \in TransientKinds /\ i < m
             THEN Append(before, i * 10)
             ELSE before

\* C17: fetch_url with backoff b makes at most max(b, 1) connection
\* attempts and is out of its loop once it made that many; it has slept
\* i * 10 seconds after every i-th attempt that failed transiently with
\* i < max(b, 1), and at no other time, and after such a failure it is in
\* the loop for the next attempt; a transient failure of the last allowed
\* attempt and a failure of any other kind end the call at once, raised as
\* they are.
C17_RetryBoundAndBackoff ==
    /\ n = Len(conn)
    /\ Len(conn) <= Allowed(backoff)
    /\ (fpc = "loop") => Len(conn) < Allowed(backoff)
    /\ slept = SleepsFor(conn, Allowed(backoff))
    /\ \A i \in 1..Len(conn) :
          /\ (conn[i] \in TransientKinds /\ i < Allowed(backoff)) =>
                 (i < Len(conn) \/ fpc = "loop")
          /\ (conn[i] \in TransientKinds /\ i = Allowed(backoff)) =>
                 (fpc = "done" /\ fres = Raised(conn[i], i))
          /\ conn[i] \notin TransientKinds \cup {"ok"} =>
                 (i = Len(conn) /\ fpc = "done" /\ fres = Raised(conn[i], i))

\* A call with backoff 3 that failed transiently three times: it slept 10
\* and 20 seconds and raised the third failure.
C17_Witness ==
    /\ fpc = "done"
    /\ backoff = 3
    /\ conn = <<"URLError", "RemoteDisconnected", "URLError">>
    /\ slept = <<10, 20>>
    /\ fres = Raised("URLError", 3)

\* A call with backoff 0: one attempt, no sleep.
C17_WitnessFloor ==
    /\ fpc = "done"
    /\ backoff = 0
    /\ conn = <<"HTTPError">>
    /\ slept = <<>>

\* C18: once a connection attempt succeeds no further attempt is made; the
\* file holds the body of that first successful response; a call whose
\* first attempt succeeded does not end with a connection failure; and a
\* call that ended left no response it opened unclosed.
C18_NoAttemptAfterSuccess ==
    /\ \A i \in 1..Len(conn) : conn[i] = "ok" => i = Len(conn)
    /\ (fres.kind = "returned" \/ fpc = "read") =>
          fin = (CHOOSE i \in 1..Len(conn) : conn[i] = "ok" /\ \A j \in 1..(i - 1) : conn[j] # "ok")
    /\ (fpc = "done" /\ conn # <<>> /\ conn[1] = "ok" /\ fres.kind = "raised") =>
          fres.at = 0
    /\ fpc = "done" => opened = {}

\* The parts of it taken one by one: an attempt follows a success;
AttemptAfterSuccess == \E i \in 1..Len(conn) : conn[i] = "ok" /\ i < Len(conn)
\* a call whose first attempt succeeded ends with a later connection failure;
FailsAfterSuccess ==
    /\ fpc = "done"
    /\ conn # <<>> /\ conn[1] = "ok"
    /\ fres.kind = "raised" /\ fres.at > 1
\* a call ends with a response it opened still open.
LeavesResponseOpen == fpc = "done" /\ opened # {}

\* What does hold: every allowed attempt is made unless one raises, and the
\* body read is that of the last response.
EveryAttemptMade ==
    /\ fpc = "read" => (Len(conn) = Allowed(backoff) /\ fin = Len(conn))
    /\ fres.kind = "returned" => (Len(conn) = Allowed(backoff) /\ fin = Len(conn))

(***************************************************************************)
(* Properties of the build pipeline.                                       *)
(***************************************************************************)

Ops == { events[i].op : i \in 1..Len(events) }

\* What the pipeline does to get, compile, configure and run the generator.
GeneratorOps ==
    { "download_generator", "extract_generator", "clone_generator",
      "configure_generator", "make_generator", "write_config",
      "generator_source", "generator_build" }

\* C3: once a call of the pipeline has returned normally, a later call on
\* the same work tree (with the same arguments) downloads or clones no
\* generator, runs no generator configure or make, writes no generator
\* .config and invokes neither the generator's source nor its build.
C3_NoRework == okBefore => Ops \cap GeneratorOps = {}

\* A second call that ran to its normal end after a first that did.
C3_Witness ==
    /\ okBefore
    /\ bpc = "end"
    /\ outcome = Ok
    /\ "resolve_hit" \in Ops

\* C4: when a call of the pipeline has ended, in whatever way, the working
\* directory is the one it was called in; and when a helper that changes
\* the working directory (_configure_ctng, pushd) has ended, the working
\* directory is the one the helper was called in.
C4_CwdRestored ==
    /\ bpc = "end" => cwd = cwd0
    /\ hcall.name \in {"_configure_ctng", "pushd"} => cwd = hcall.from

\* The pipeline's own part of C4, which the finally clause gives.
PipelineRestoresCwd == bpc = "end" => cwd = cwd0

\* The commands the pipeline runs as subprocesses (build_ppt makes its
\* archive in process).
SubprocessOps ==
    { "clone_generator", "configure_generator", "make_generator",
      "generator_source", "generator_build", "configure_aux", "make_aux" }
      \cup (IF variant = "ppbt" THEN {"create_archive"} ELSE {})

\* C5: a subprocess of the pipeline that exits with a non-zero status is the
\* last thing the call does, and the call ends with the build error that
\* carries that command.
C5_SubprocessFailureFatal ==
    \A i \in 1..Len(events) :
        (events[i].op \in SubprocessOps /\ events[i].rc # 0) =>
            /\ i = Len(events)
            /\ outcome = Exc("BuildError", events[i].op)

\* What a call that found the config file missing must not have done.
AfterConfigOps ==
    { "write_config", "generator_source", "generator_build", "create_archive",
      "write_manifest", "copy_archive", "copy_manifest", "move_archive" }

\* C6: a call that finds no toolchain directory for the triplet and no config
\* file prints the diagnostic and exits the process with status 1; it writes
\* no generator .config, invokes neither source nor build, and makes no
\* archive and no manifest.
C6_MissingConfigFailsFast ==
    ("resolve_miss" \in Ops /\ Config \notin fs) =>
        /\ Ops \cap AfterConfigOps = {}
        /\ DotConfig \notin fs
        /\ bpc # "config" =>
              /\ outcome = Exc("SystemExit", "1")
              /\ events[Len(events)].op = "print_config_missing"
              /\ events[Len(events) - 1].op = "resolve_miss"

\* A call that ended by exiting for the missing config file.
C6_Witness ==
    /\ bpc = "end"
    /\ "resolve_miss" \in Ops
    /\ Config \notin fs
    /\ outcome = Exc("SystemExit", "1")

\* The events that are checks of the work tree, not actions of a stage.
CheckOps == { "resolve_hit", "resolve_miss" }

\* C19: every stage acts only when its completion marker is absent, so a
\* call made after one that returned normally, which left every stage
\* complete, performs no action at all: no download, no subprocess, no
\* file written or copied.
C19_StagesGated ==
    okBefore => \A i \in 1..Len(events) : events[i].op \in CheckOps

\* What does hold: the stages that are gated.  Such a call fetches and
\* builds neither the generator nor the toolchain nor the auxiliary tool.
GatedStages ==
    okBefore =>
        \A i \in 1..Len(events) :
            events[i].op \in
                CheckOps \cup { "copy_aux", "create_archive", "write_manifest",
                                "copy_archive", "copy_manifest", "move_archive" }

\* Steps 4, 5 and 6: the generator configuration, the generator's source
\* and build, and the auxiliary tool fetched, built and copied.
Steps4to6 ==
    { "write_config", "generator_source", "generator_build",
      "download_aux", "extract_aux", "configure_aux", "make_aux", "copy_aux" }

\* C20: a call that finds the directory of the built toolchain at step 3
\* performs none of steps 4, 5 and 6.
C20_CacheHitSkips ==
    (\E i \in 1..Len(events) : events[i].op = "resolve_hit") =>
        \A i \in 1..Len(events) : events[i].op \notin Steps4to6

\* What does hold: such a call performs neither step 4 nor step 5.
CacheHitSkipsGenerator ==
    (\E i \in 1..Len(events) : events[i].op = "resolve_hit") =>
        \A i \in 1..Len(events) :
            events[i].op \notin { "write_config", "generator_source", "generator_build" }

\* A call that found the toolchain built and then fetched, built and copied
\* the auxiliary tool.
CacheHitBuildsAux ==
    /\ \E i \in 1..Len(events) : events[i].op = "resolve_hit"
    /\ \E i \in 1..Len(events) : events[i].op = "download_aux"
    /\ \E i \in 1..Len(events) : events[i].op = "make_aux"
    /\ \E i \in 1..Len(events) : events[i].op = "copy_aux"

\* The flags that permit a build as the privileged user.
RootFlags == { <<"CT_ALLOW_BUILD_AS_ROOT", "y">>, <<"CT_ALLOW_BUILD_AS_ROOT_SURE", "y">> }

\* The prefix the toolchain directory of the triplet is made in.
PrefixOf(v, static) == IF v = "ppbt" \/ static THEN "build" ELSE "_toolchain"

\* What installs the auxiliary tool and what makes the archive and the
\* manifest.
InstallAndArchiveOps ==
    { "copy_aux", "create_archive", "write_manifest", "copy_archive",
      "copy_manifest", "move_archive" }

\* The ordering of the generator's phases in the current call, their
\* failures and their environment.
PhaseOrdering ==
    \A i \in 1..Len(events) :
        /\ events[i].op = "generator_source" =>
              /\ i > 1
              /\ events[i - 1].op = "write_config"
        /\ events[i].op = "generator_build" =>
              /\ i > 1
              /\ events[i - 1].op = "generator_source"
              /\ events[i - 1].rc = 0
        /\ (events[i].op \in {"generator_source", "generator_build"} /\ events[i].rc # 0) =>
              /\ i = Len(events)
              /\ outcome = Exc("BuildError", events[i].op)
              /\ \A j \in 1..Len(events) : events[j].op \notin InstallAndArchiveOps
        /\ events[i].op \in {"generator_source", "generator_build"} =>
              /\ <<"CT_PREFIX", PrefixOf(variant, arg)>> \in events[i].env
              /\ (RootFlags \subseteq events[i].env) <=> privileged
              /\ (RootFlags \cap events[i].env = {}) <=> ~privileged

\* C21: in a call that builds the toolchain the generator .config is
\* written before the source phase, source runs before build, build runs
\* only after a source that exited with zero, a non-zero exit of either
\* raises the build error with no auxiliary tool installed and no archive
\* or manifest made in that call; both phases are given the prefix, and
\* the flags for a privileged build exactly when the process is privileged.
C21_BuildPhaseOrdering == PhaseOrdering

\* What does hold: all of it in build_ppbt, and in build_ppt all but the
\* kind of the error and the flags.
PpbtPhaseOrdering == variant = "ppbt" => PhaseOrdering
PptPhaseOrdering ==
    variant = "ppt" =>
        \A i \in 1..Len(events) :
            /\ events[i].op = "generator_source" =>
                  (i > 1 /\ events[i - 1].op = "write_config")
            /\ events[i].op = "generator_build" =>
                  (i > 1 /\ events[i - 1].op = "generator_source" /\ events[i - 1].rc = 0)
            /\ (events[i].op \in {"generator_source", "generator_build"} /\ events[i].rc # 0) =>
                  /\ i = Len(events)
                  /\ outcome = Exc("BaseException", events[i].op)
                  /\ \A j \in 1..Len(events) : events[j].op \notin InstallAndArchiveOps
            /\ events[i].op \in {"generator_source", "generator_build"} =>
                  /\ <<"CT_PREFIX", PrefixOf(variant, arg)>> \in events[i].env
                  /\ RootFlags \subseteq events[i].env

\* build_ppt run by an unprivileged user gives the phases the flags.
UnprivilegedGetsFlags ==
    /\ variant = "ppt"
    /\ ~privileged
    /\ \E i \in 1..Len(events) :
          events[i].op = "generator_build" /\ RootFlags \subseteq events[i].env

\* C23: in build_ppbt the configure and the make of the auxiliary tool
\* run only while the process stands in the auxiliary tool's source
\* directory, whatever markers the call found.
C23_AuxBuiltInSource ==
    \A i \in 1..Len(events) :
        events[i].op \in {"configure_aux", "make_aux"} => events[i].cwd = "build/patchelf"

\* What does hold: they run there in a call that fetched the source itself,
\* and in the generator's directory otherwise.
AuxBuiltWhereTheCallStands ==
    \A i \in 1..Len(events) :
        events[i].op \in {"configure_aux", "make_aux"} =>
            events[i].cwd =
                (IF \E j \in 1..(i - 1) : events[j].op = "extract_aux"
                 THEN "build/patchelf"
                 ELSE "build/crosstool-ng")

\* A call that found the toolchain built and the auxiliary source there
\* without its executable, and ran make in the generator's directory.
ResumedAuxBuildElsewhere ==
    /\ variant = "ppbt"
    /\ \E i \in 1..Len(events) : events[i].op = "resolve_hit"
    /\ \E i \in 1..Len(events) :
          events[i].op = "make_aux" /\ events[i].cwd = "build/crosstool-ng"
    /\ \A i \in 1..Len(events) : events[i].op # "download_aux"

\* The paths whose existence makes a call skip a stage.
Markers == { GenDir, GenExe, ArchDir, AuxDir, AuxExe }

\* C24: a stage is skipped only when an earlier execution of it ran to its
\* successful end; that is, no call that failed or was cut short inside a
\* stage has left the stage's marker behind, and a call that takes the
\* toolchain directory as built finds one that a build completed.
C24_SkippedWasCompleted ==
    /\ Markers \cap partial = {}
    /\ (\E i \in 1..Len(events) : events[i].op = "resolve_hit") => ArchDir \notin partial

\* What does hold: the executables are there only when their make exited
\* with zero.
ExecutableMarkersComplete == {GenExe, AuxExe} \cap partial = {}

\* A call that took as built a toolchain directory that a failed generator
\* build had left.
SkipsUnfinishedToolchain ==
    /\ ArchDir \in partial
    /\ \E i \in 1..Len(events) : events[i].op = "resolve_hit"

\* A call that took a generator directory left by an archive that unpacked
\* only in part and went on to compile in it.
SkipsUnfinishedGenerator ==
    /\ GenDir \in partial
    /\ \A i \in 1..Len(events) :
          events[i].op \notin {"download_generator", "extract_generator", "clone_generator"}
    /\ \E i \in 1..Len(events) : events[i].op = "configure_generator"

C26_WitnessBuilt ==
    /\ variant = "ppbt"
    /\ \E i \in 1..Len(events) : events[i].op = "generator_build"
    /\ events[Len(events)].op = "write_manifest"
    /\ archived.whole

(***************************************************************************)
(* Properties of the triplet resolver.                                     *)
(***************************************************************************)

\* The exceptions of each package: its base exception and the subclasses.
PackageErrors(v) ==
    IF v = "ppbt" THEN {"PPBTException", "BuildError"} ELSE {"PPTException"}

\* What the last call must have given, for a machine and a platform that
\* are both given.
TripletAsSpecified ==
    IF plat = "linux" THEN tres = TReturn(machine \o "-linux-gnu")
    ELSE IF plat = "darwin" THEN tres = TReturn(machine \o "-macos")
    ELSE IF plat = "win32" THEN tres = TReturn(machine \o "-win")
    ELSE tres.kind = "raise" /\ tres.val \in PackageErrors(tvariant)

\* C7: for every non-empty machine m, get_triplet(m, "linux") is
\* m + "-linux-gnu", get_triplet(m, "darwin") is m + "-macos",
\* get_triplet(m, "win32") is m + "-win", and for any other non-empty
\* platform the call returns nothing and raises an exception of the package
\* (its base exception or a subclass); this in both modules.
C7_TripletResolution ==
    (tres.kind # "none" /\ machine # "" /\ plat # "") => TripletAsSpecified

\* The same for get_triplet of src/ppbt/common.py alone.
PpbtTripletResolution ==
    (tres.kind # "none" /\ tvariant = "ppbt" /\ machine # "" /\ plat # "")
        => TripletAsSpecified

\* The suffix of the triplets of this host, and the hosts that have one.
HostSuffix ==
    IF sys_platform = "linux" THEN "-linux-gnu"
    ELSE IF sys_platform = "darwin" THEN "-macos"
    ELSE "-win"
SupportedHosts == {"linux", "darwin", "win32"}

\* Every triplet of a machine and a supported platform.
TripletValues ==
    { m \o x : m \in Machines \ {""}, x \in {"-linux-gnu", "-macos", "-win"} }

\* The names the last place derived are those of triplet t.
NamesOf(t) ==
    /\ names.archive # "" => names.archive = t \o ".tar.xz"
    /\ names.record # "" => names.record = t \o ".tar.xz.record"
    /\ names.dir # "" => names.dir = t

\* C27: at every place that derives them (build_ppbt, build_ppt,
\* archived_build, get_toolchain, the constants of the environment
\* modules) the archive name is the triplet followed by ".tar.xz", the
\* manifest name the triplet followed by ".tar.xz.record" and the toolchain
\* subdirectory the triplet itself, the triplet being the one of the
\* place's architecture on this host; so the build stage and the
\* extraction stage name the same directory, and two different triplets
\* never share an archive name or a subdirectory.
C27_TripletDeterminesNames ==
    /\ (names.site # "none" /\ sys_platform \in SupportedHosts) =>
           NamesOf(names.arch \o HostSuffix)
    /\ \A t1, t2 \in TripletValues :
           t1 # t2 => t1 \o ".tar.xz" # t2 \o ".tar.xz"

\* What does hold: the same at every place but get_toolchain.
NamesAgreeOutsideGetToolchain ==
    /\ (names.site \notin {"none", "get_toolchain"} /\ sys_platform \in SupportedHosts) =>
           /\ ~names.raised
           /\ names.archive # ""
           /\ names.dir # "" \/ names.site = "archived_build"
           /\ NamesOf(names.arch \o HostSuffix)
    /\ \A t1, t2 \in TripletValues :
           t1 # t2 => t1 \o ".tar.xz" # t2 \o ".tar.xz"

\* And at get_toolchain on a Linux host.
GetToolchainOnLinux ==
    (names.site = "get_toolchain" /\ sys_platform = "linux") =>
        NamesOf(names.arch \o HostSuffix)

\* get_toolchain("x86_64") on a macOS host, where build_ppt makes the
\* directory x86_64-macos, gives x86_64-linux-gnu.
GetToolchainOffLinux ==
    /\ names.site = "get_toolchain"
    /\ sys_platform = "darwin"
    /\ names.arch = "x86_64"
    /\ names.dir = "x86_64-linux-gnu"

\* The build stage and the constants of the extraction stage on one host.
BuildNamesDerived ==
    /\ names.site = "build_ppbt"
    /\ names.archive = "x86_64-linux-gnu.tar.xz"
    /\ names.record = "x86_64-linux-gnu.tar.xz.record"
    /\ names.dir = "x86_64-linux-gnu"

\* A call does nothing but give its result.
TripletNoSideEffect ==
    [][sys_platform' = sys_platform /\ platform_machine' = platform_machine]_vars

(***************************************************************************)
(* Properties of the extractor and the environment.                        *)
(***************************************************************************)

\* The last call left the toolchain directory and the record as they were.
Untouched ==
    /\ toolchain = ecall.tree
    /\ recordExists = ecall.hadRecord
    /\ record = ecall.rows

\* What environ must have done, by the argument and the toolchain directory.
EnvironAsSpecified ==
    /\ (ecall.tree = "absent" /\ ecall.a = "False") =>
          /\ ecall.res = "RuntimeError"
          /\ ~ecall.unpacked
          /\ Untouched
    /\ (ecall.tree = "absent" /\ ecall.a = "True" /\ ecall.res = "returned") =>
          /\ ecall.unpacked
          /\ toolchain = "complete"
    /\ ecall.tree # "absent" =>
          /\ ~ecall.unpacked
          /\ Untouched

\* C8: with no toolchain directory, environ(auto_extract=False) raises the
\* "not extracted" error and changes nothing (nothing unpacked, the record
\* not rewritten), and environ(auto_extract=True) extracts before it returns
\* the mapping; with the toolchain directory there, neither extracts.  This
\* for environ of src/ppbt/common.py and of src/ppt/common.py.
C8_EnvironBeforeExtraction ==
    (ecall.op = "environ" /\ evariant \in {"ppbt", "ppt_common"})
        => EnvironAsSpecified

\* The same for environ of src/ppbt/common.py alone.
PpbtEnvironBeforeExtraction ==
    (ecall.op = "environ" /\ evariant = "ppbt") => EnvironAsSpecified

\* extract() returns without unpacking because it finds a toolchain
\* directory that an unpacking cut short had left.
SkipsUnfinishedExtraction ==
    /\ ecall.op = "extract"
    /\ ecall.tree = "partial"
    /\ ~ecall.unpacked
    /\ ecall.res = "returned"

\* The last call was extract(overwrite=True).
Forced == ecall.op = "extract" /\ ecall.a = "True"

\* C9: whatever extract(overwrite=False) and environ calls are made, the
\* archive is unpacked at most once by them; a call other than
\* extract(overwrite=True) that finds the toolchain directory neither
\* unpacks the archive nor touches the record; only extract(overwrite=True)
\* unpacks over a toolchain directory that is there.
C9_ExtractAtMostOnce ==
    /\ plainUnpacks <= 1
    /\ (ecall.op # "none" /\ ecall.tree # "absent" /\ ~Forced) =>
          /\ ~ecall.unpacked
          /\ Untouched
    /\ (ecall.unpacked /\ ecall.tree # "absent") => Forced

\* extract(overwrite=False) after a call of this process unpacked the
\* archive: it finds the directory and unpacks nothing.
C9_Witness ==
    /\ plainUnpacks = 1
    /\ ecall.op = "extract"
    /\ ecall.a \in {"omitted", "False"}
    /\ ecall.tree = "complete"
    /\ ~ecall.unpacked

\* The number of times row r stands in s.
Count(r, s) == Cardinality({ i \in DOMAIN s : s[i] = r })

\* No row stands before one of a lesser path.
Ascending(s) == \A i, j \in DOMAIN s : i < j => ~StrLess(s[j][1], s[i][1])

\* C10: an extraction (by a module that keeps the record) that finds the
\* record rewrites it with exactly the rows it held plus the rows of the
\* archive's manifest, each as often as it stood in the two together, in
\* ascending order of path; one that finds no record unpacks the archive
\* all the same and creates no record.
C10_ManifestReconciliation ==
    (evariant \in {"ppbt", "ppt_common"} /\ ecall.unpacked) =>
        /\ toolchain = "complete"
        /\ IF ecall.hadRecord
           THEN manifestExists =>
                   /\ recordExists
                   /\ Ascending(record)
                   /\ \A r \in Rows :
                         Count(r, record) = Count(r, ecall.rows) + Count(r, manifest)
           ELSE /\ ~recordExists
                /\ ecall.res = "returned"

\* An extraction that had rows to merge and to put in order.
C10_Witness ==
    /\ ecall.unpacked
    /\ ecall.hadRecord
    /\ manifestExists
    /\ manifest # <<>>
    /\ ecall.rows # <<>>
    /\ ~Ascending(ecall.rows \o manifest)
    /\ Ascending(record)

\* An extraction with no record to update.
C10_WitnessNoRecord ==
    /\ ecall.unpacked
    /\ ~ecall.hadRecord
    /\ manifestExists
    /\ ~recordExists

\* The mapping the specification gives for a toolchain root and a triplet.
SpecifiedEnviron(root, triplet) ==
    [TOOLCHAIN_PATH |-> root \o "/" \o triplet,
     CC |-> root \o "/" \o triplet \o "/bin/" \o triplet \o "-gcc",
     CXX |-> root \o "/" \o triplet \o "/bin/" \o triplet \o "-g++",
     CFLAGS |-> "-I" \o root \o "/" \o triplet \o "/" \o triplet \o "/sysroot/usr/include",
     CPPFLAGS |-> "-I" \o root \o "/" \o triplet \o "/" \o triplet \o "/sysroot/usr/include",
     CMAKE_FLAGS |-> "-I" \o root \o "/" \o triplet \o "/" \o triplet \o "/sysroot/usr/include",
     LDFLAGS |-> "-L" \o root \o "/" \o triplet \o "/" \o triplet \o "/sysroot/lib"]

\* C15: whenever environ returns, in any of the three modules, the mapping
\* has exactly the seven keys and each value is the specified text made of
\* the toolchain root and the triplet alone, so two calls in one state give
\* equal mappings; and a call that finds the toolchain directory leaves the
\* directory and the record as they were and unpacks nothing.
C15_EnvironDerivation ==
    ecall.op = "environ" =>
        /\ ecall.res = "returned" =>
              /\ DOMAIN ecall.env =
                    {"TOOLCHAIN_PATH", "CC", "CXX", "CFLAGS", "CPPFLAGS",
                     "CMAKE_FLAGS", "LDFLAGS"}
              /\ ecall.env = SpecifiedEnviron(eroot, etriplet)
        /\ ecall.tree # "absent" =>
              /\ ~ecall.unpacked
              /\ toolchain = ecall.tree
              /\ recordExists = ecall.hadRecord
              /\ record = ecall.rows

\* environ returns the mapping with the toolchain directory there.
C15_Witness ==
    /\ ecall.op = "environ"
    /\ ecall.res = "returned"
    /\ ecall.tree = "complete"
    /\ ecall.env # NoMapping
    /\ etriplet = "aarch64-linux-gnu"

\* environ of src/ppt/common.py returns the mapping after it extracted.
C15_WitnessPpt ==
    /\ ecall.op = "environ"
    /\ ecall.res = "returned"
    /\ evariant = "ppt_common"
    /\ ecall.unpacked

\* environ of src/ppt/environ.py never returns: it ends in TypeError.
PptEnvironNeverReturns ==
    (ecall.op = "environ" /\ evariant = "ppt_environ") => ecall.res # "returned"

\* No path stands in two rows of s.
DistinctPaths(s) == \A i, j \in DOMAIN s : i # j => s[i][1] # s[j][1]

\* C25: a call of extract or environ that finds the record with every path
\* in one row only (and a manifest that names every path once) leaves it
\* so; hence from a record of distinct paths no sequence of calls gives a
\* path two rows, a forced re-extraction included.
C25_NoDuplicateRows ==
    (ecall.op # "none" /\ DistinctPaths(ecall.rows) /\ DistinctPaths(manifest)) =>
        DistinctPaths(record)

\* What does hold: calls that unpack nothing leave the record as it was,
\* and an unpacking keeps the paths distinct when the record held none of
\* the manifest's paths.
NoDuplicatesFromDisjoint ==
    (ecall.op # "none" /\ DistinctPaths(ecall.rows) /\ DistinctPaths(manifest)
       /\ \A i \in DOMAIN ecall.rows, j \in DOMAIN manifest : ecall.rows[i][1] # manifest[j][1]) =>
        DistinctPaths(record)

\* extract(overwrite=True) after an extraction of this process: the record
\* held every path once and now holds the manifest's rows twice.
ForcedReextractionDuplicates ==
    /\ ecall.op = "extract"
    /\ ecall.a = "True"
    /\ plainUnpacks = 1
    /\ ecall.unpacked
    /\ manifest # <<>>
    /\ DistinctPaths(manifest)
    /\ DistinctPaths(ecall.rows)
    /\ \A j \in DOMAIN manifest :
          Cardinality({ i \in DOMAIN record : record[i] = manifest[j] }) = 2

(***************************************************************************)
(* Properties of the archive over several runs of the pipeline.            *)
(***************************************************************************)

\* C16: the pipeline run twice on one work root, each run with every step
\* succeeding, leaves the same archive both times: whatever two runs that
\* returned normally published, archives written to their end are equal,
\* recorded modification times included.
C16_ReproducibleArchive ==
    \A i, j \in DOMAIN published :
        (published[i].whole /\ published[j].whole) => published[i] = published[j]

\* What does hold: the first run that returns publishes the tree as the
\* first copy of the auxiliary tool left it, and build_ppt publishes once.
FirstArchive ==
    /\ (published # <<>> /\ variant = "ppbt" /\ published[1].whole) =>
           published[1].aux_mtime >= 1
    /\ variant = "ppt" => Len(published) <= 1

(***************************************************************************)
(* Properties of the archiver, the manifest and the archive codec.         *)
(***************************************************************************)

RegularFiles(t) == { p \in DOMAIN t : t[p].kind = "file" }

\* The manifest rows whose path is that of tree path p once installed.
RowsFor(p) == { i \in DOMAIN mrows : mrows[i][1] = <<"ppbt", "_toolchain">> \o p }

\* Row i gives the length and the digest of bytes d.
RowDescribes(i, d) ==
    /\ mrows[i][2] = <<"sha256=", <<"b64", "sha256", d>>>>
    /\ mrows[i][3] = LenText(d)

\* C11: after the manifest step of build_ppbt the manifest has exactly one
\* row for every regular file of the built tree, with the file's length and
\* the SHA-256 digest of its bytes, and no row for a path that is not a
\* regular file of the tree.
C11_ManifestCompleteness ==
    apc = "manifested" =>
        /\ \A p \in RegularFiles(tree) :
              /\ Cardinality(RowsFor(p)) = 1
              /\ \A i \in RowsFor(p) : RowDescribes(i, tree[p].data)
        /\ \A i \in DOMAIN mrows : \E p \in RegularFiles(tree) : i \in RowsFor(p)

\* What does hold: a manifest step that ends normally has written one row
\* for every entry that is not a directory, with the length and the digest
\* of the bytes read through it, and no other row.
ManifestOfCompletedWalk ==
    (apc = "manifested" /\ ares = "returned") =>
        /\ \A p \in WalkFiles(tree) :
              /\ Cardinality(RowsFor(p)) = 1
              /\ \A i \in RowsFor(p) : RowDescribes(i, ReadBytes(tree, p))
        /\ \A i \in DOMAIN mrows : \E p \in WalkFiles(tree) : i \in RowsFor(p)

\* The entries the walk lists that can be opened and read.
Readable(t) == { p \in WalkFiles(t) : ReadBytes(t, p) # <<-1>> }

\* C22: when a file the walk lists cannot be opened because it is not
\* there (a dangling link), the manifest step skips it and goes on: the
\* step ends normally and the manifest has exactly one row for every listed
\* file that can be read.
C22_BestEffortWalk ==
    apc = "manifested" =>
        /\ ares = "returned"
        /\ \A p \in Readable(tree) : Cardinality(RowsFor(p)) = 1

\* What does hold: a listed file that cannot be opened ends the step with
\* FileNotFoundError, the rows of the files listed after it unwritten.
WalkAbortsAtMissing ==
    (apc = "manifested" /\ Readable(tree) # WalkFiles(tree)) =>
        /\ ares = "FileNotFoundError"
        /\ Len(mrows) < Cardinality(WalkFiles(tree))

\* A manifest step that ended at a dangling link with a readable file left
\* out of the manifest.
WalkLosesReadableFile ==
    /\ apc = "manifested"
    /\ ares = "FileNotFoundError"
    /\ \E p \in Readable(tree) : RowsFor(p) = {}

\* The manifest step ran over the whole tree.
ManifestWhole == Len(mrows) = Cardinality(WalkFiles(tree))

\* C12: the path in the manifest row of a file of the built tree is the
\* path, relative to the directory that holds the installed package, at
\* which extraction puts that file; so every row names something that is
\* there after extraction.
C12_ManifestPathsInstalled ==
    (apc = "extracted" /\ akind = "ppbt" /\ ares = "returned" /\ ManifestWhole) =>
        /\ \A i \in DOMAIN mrows :
              /\ SitePackages \o mrows[i][1] \in DOMAIN dest
              /\ dest[SitePackages \o mrows[i][1]].kind # "dir"
        /\ \A p \in WalkFiles(tree) :
              \E i \in DOMAIN mrows :
                  /\ SitePackages \o mrows[i][1] = Resolve(TOOLCHAIN_ROOT \o p)
                  /\ dest[Resolve(TOOLCHAIN_ROOT \o p)] = tree[p]

\* An extraction of the pipeline's archive with a manifest of several rows.
C12_Witness ==
    /\ apc = "extracted"
    /\ akind = "ppbt"
    /\ ares = "returned"
    /\ ManifestWhole
    /\ Len(mrows) >= 2

\* Some member of archive a resolves to a path outside TOOLCHAIN_ROOT.
Escapes(a) ==
    \E i \in DOMAIN a : ~Under(Resolve(TOOLCHAIN_ROOT \o a[i].name), TOOLCHAIN_ROOT)

\* C13: extract_archive fails on an archive with a member whose resolved
\* path lies outside the destination, and after any extraction everything
\* it wrote lies under the destination.
C13_PathTraversalRejected ==
    apc \in {"extracted", "extracted_foreign"} =>
        /\ \A p \in DOMAIN dest : Under(p, TOOLCHAIN_ROOT) \/ Under(TOOLCHAIN_ROOT, p)
        /\ Escapes(tarball) => ares # "returned"

\* What does hold on an interpreter whose default filter is "data".
TraversalRejectedUnderDataFilter ==
    (apc \in {"extracted", "extracted_foreign"} /\ tarDefault = "data") =>
        /\ \A p \in DOMAIN dest : Under(p, TOOLCHAIN_ROOT) \/ Under(TOOLCHAIN_ROOT, p)
        /\ Escapes(tarball) => ares # "returned"

\* The tree below TOOLCHAIN_ROOT after the extraction, by relative path.
Extracted ==
    LET below == { q \in DOMAIN dest : Under(q, TOOLCHAIN_ROOT) /\ q # TOOLCHAIN_ROOT }
        rel == { SubSeq(q, Len(TOOLCHAIN_ROOT) + 1, Len(q)) : q \in below }
    IN  [p \in rel |-> dest[TOOLCHAIN_ROOT \o p]]

\* C14: the archive the pipeline makes of a tree, extracted into an empty
\* directory, gives the tree back: the same relative paths, directories
\* without files among them, and the same contents.
C14_ArchiveRoundTrip ==
    (apc = "extracted" /\ ares = "returned") => Extracted = tree

\* What does hold: the round trip through the tar of build_ppbt.
PpbtArchiveRoundTrip ==
    (apc = "extracted" /\ ares = "returned" /\ akind = "ppbt") => Extracted = tree

====
